---- MODULE Spec2Model ----
(***************************************************************************)
(* A model of the add-a-parameter refactoring of upgrade-client-automation *)
(* (typescriptEditing): the planner that turns one "Add Parameter"         *)
(* requirement into a changeset of consequent requirements, and the        *)
(* executor that implements the changeset against a project.               *)
(*                                                                         *)
(* A project is a sequence of function/method declarations in document     *)
(* order. Each declaration carries what the path expressions of the code   *)
(* look at: its Identifier, its file, the class/namespace declarations     *)
(* around it, its modifier keywords, its parameters and the call           *)
(* expressions in its body. A call expression is the sequence of the       *)
(* identifiers it is written with: <<"f">> is f(..), <<"A", "f">> is       *)
(* A.f(..), <<"this", "f">> is this.f(..).                                 *)
(***************************************************************************)
EXTENDS Integers, Sequences, FiniteSets, TLC

VARIABLES
    project,      \* the declarations of the project, in document order
    root,         \* the root requirement handed to changesetForRequirement
    pc,           \* "planning" | "planned" | "flush" | "done" | "failed"
    unchecked,    \* prerequisite requirements waiting to be planned: [req, parent]
    checked,      \* every requirement planned so far, in planning order
    changesets,   \* the changeset tree: [parent, requirements]
    steps,        \* the executor's events so far: [op, at]
    cursor,       \* the executor's position in ExecutionOrder
    imports,      \* the import declarations of each file of the project
    staged,       \* the content with the edits the next flush writes, and
                  \* the report of the requirement that made them
    report,       \* the executor's report so far
    handler       \* the fingerprint handler: the pushed repository, what the
                  \* handler has determined, pushed and said, and its result

vars == <<project, root, pc, unchecked, checked, changesets, steps, cursor,
          imports, staged, report, handler>>

(***************************************************************************)
(* Bounds of the model.                                                    *)
(***************************************************************************)
MaxCalls == 2        \* call expressions in one declaration's body
MaxChangesets == 6   \* cap on the changesets a planning run may create

(***************************************************************************)
(* Values of the test fixtures.                                            *)
(***************************************************************************)
Undefined == "undefined"

\* No push event has arrived.
NoHandler == [event |-> Undefined]
TypeName == "HandlerContext"
ParameterName == "context"
LibraryLocation == "@atomist/automation-client"

LibraryImport(name, location) ==
    [kind |-> "library", name |-> name, location |-> location]

LocalImport(name, localPath, externalPath) ==
    [kind |-> "local", name |-> name, localPath |-> localPath,
     externalPath |-> externalPath]

ParameterTypes ==
    { LibraryImport(TypeName, LibraryLocation),
      LocalImport(TypeName, "src/HandlerContext", LibraryLocation),
      LocalImport(TypeName, "src/HandlerContext", Undefined) }

PopulateInTests ==
    [dummyValue |-> "{} as HandlerContext",
     additionalImport |-> LibraryImport(TypeName, LibraryLocation)]

(***************************************************************************)
(* Function call identifiers.                                              *)
(* enclosingScope is the chain of scopes around the declaration, innermost *)
(* first; <<>> is an undefined enclosingScope.                             *)
(***************************************************************************)
Accesses ==
    {"PublicFunctionAccess", "PrivateFunctionAccess",
     "PublicMethodAccess", "PrivateMethodAccess"}

ClassAroundMethod(name) ==
    [kind |-> "class around method", name |-> name, exported |-> TRUE]

EnclosingNamespace(name) ==
    [kind |-> "enclosing namespace", name |-> name, exported |-> TRUE]

isClassAroundMethod(s) == s.kind = "class around method"

FunctionCallIdentifier(name, filePath, enclosingScope, access) ==
    [name |-> name, filePath |-> filePath, enclosingScope |-> enclosingScope,
     access |-> [kind |-> access]]

isPublicFunctionAccess(access) == access.kind = "PublicFunctionAccess"

isPublicMethodAccess(access) == access.kind = "PublicMethodAccess"

isPrivateMethodAccess(access) == access.kind = "PrivateMethodAccess"

isPrivateFunctionAccess(access) == access.kind = "PrivateFunctionAccess"

\* An identity of functions that leaves the scope chain out.
sameFunctionIdentifier(r1, r2) ==
    /\ r1.name = r2.name
    /\ r1.filePath = r2.filePath

\* Identity of a function: name, file and scope chain.
sameFunctionCallIdentifier(r1, r2) ==
    /\ r1.name = r2.name
    /\ r1.filePath = r2.filePath
    /\ r1.enclosingScope = r2.enclosingScope

\* File paths are <<top-level directory, file name>>.
Path(dir, file) == <<dir, file>>

\* A check that takes no file for a test.
NeverATest(filePath) == FALSE

\* filePath.startsWith("test")
StartsWithTest(filePath) == filePath[1] = "test"

\* A search that always covers every source and test file.
globEverywhere(fn) == [kind |-> "glob", dirs |-> {"src", "test"}]

\* The files the planner searches for calls of fn: every source and test
\* file for a public function or method, the declaring file otherwise.
globFromAccess(fn) ==
    IF isPublicFunctionAccess(fn.access) \/ isPublicMethodAccess(fn.access)
    THEN [kind |-> "glob", dirs |-> {"src", "test"}]
    ELSE [kind |-> "file", path |-> fn.filePath]

GlobMatches(glob, filePath) ==
    IF glob.kind = "glob" THEN filePath[1] \in glob.dirs
    ELSE filePath = glob.path

(***************************************************************************)
(* Path expressions for the calls of a function.                           *)
(***************************************************************************)
RECURSIVE propertyAccessExpression(_, _)
propertyAccessExpression(s, soFar) ==
    IF s = <<>> THEN soFar
    ELSE propertyAccessExpression(Tail(s), <<Head(s).name>> \o soFar)

functionCallPathExpression(fn) ==
    IF isPrivateMethodAccess(fn.access)
    THEN [call |-> "PropertyAccessExpression/Identifier", value |-> <<fn.name>>]
    ELSE IF fn.enclosingScope # <<>>
    THEN [call |-> "PropertyAccessExpression",
          value |-> propertyAccessExpression(fn.enclosingScope, <<fn.name>>)]
    ELSE [call |-> "Identifier", value |-> <<fn.name>>]

\* The Identifier children of the PropertyAccessExpression of a call a.b(..):
\* the property name, and the object when it is a plain identifier.
IdentifierChildren(call) ==
    IF Len(call) < 2 THEN {}
    ELSE {call[Len(call)]} \cup
         (IF Len(call) = 2 /\ call[1] # "this" THEN {call[1]} ELSE {})

\* Does the CallExpression `call` satisfy //CallExpression[...] of pxe?
CallMatches(pxe, call) ==
    CASE pxe.call = "Identifier" ->
            Len(call) = 1 /\ call = pxe.value
      [] pxe.call = "PropertyAccessExpression" ->
            Len(call) >= 2 /\ call = pxe.value
      [] pxe.call = "PropertyAccessExpression/Identifier" ->
            pxe.value[1] \in IdentifierChildren(call)

(***************************************************************************)
(* Declarations and the identifier inferred from a declaration node.       *)
(* A declaration is                                                        *)
(*   [name, path, kind, parents, keywords, params, calls]                  *)
(* kind is its node name, parents the nodes above it (innermost first),    *)
(* params a sequence of [name, type], calls a set of call expressions,     *)
(* passed the arguments that edits have put in front of each call's own.   *)
(***************************************************************************)
Declaration(name, path, kind, parents, keywords, params, calls) ==
    [name |-> name, path |-> path, kind |-> kind, parents |-> parents,
     keywords |-> keywords, params |-> params, calls |-> calls,
     passed |-> [c \in calls |-> <<>>]]

ClassDeclaration(name) ==
    [node |-> "ClassDeclaration", identifier |-> name, moduleBlock |-> FALSE]

ModuleDeclaration(name) ==
    [node |-> "ModuleDeclaration", identifier |-> name, moduleBlock |-> TRUE]

\* A function or method declaration as the parent of a declaration nested
\* in its body.
DeclarationAround(kind, name) ==
    [node |-> kind, identifier |-> name, moduleBlock |-> FALSE]

isNamespaceModule(tn) == tn.moduleBlock

\* The nodes of a sequence from position m on.
From(s, m) == SubSeq(s, m, Len(s))

\* inner is declared in the body of outer, at any depth: // of a path
\* expression goes down into it.
NestedIn(inner, outer) ==
    /\ inner.path = outer.path
    /\ \E m \in 1..Len(inner.parents) :
          /\ inner.parents[m] = DeclarationAround(outer.kind, outer.name)
          /\ From(inner.parents, m + 1) = outer.parents

\* determineScope, over the parents of the node: the class and namespace
\* declarations around it, innermost first.
RECURSIVE determineScope(_)
determineScope(parents) ==
    IF parents = <<>> THEN <<>>
    ELSE LET p == Head(parents) IN
         IF p.node = "ClassDeclaration"
         THEN <<ClassAroundMethod(p.identifier)>> \o determineScope(Tail(parents))
         ELSE IF p.node = "ModuleDeclaration" /\ isNamespaceModule(p)
         THEN <<EnclosingNamespace(p.identifier)>> \o determineScope(Tail(parents))
         ELSE determineScope(Tail(parents))

hasKeyword(fnDeclaration, astElement) == astElement \in fnDeclaration.keywords

determineAccess(fnDeclaration) ==
    IF hasKeyword(fnDeclaration, "ExportKeyword")
    THEN "PublicFunctionAccess"
    ELSE IF hasKeyword(fnDeclaration, "PrivateKeyword")
            \/ hasKeyword(fnDeclaration, "ProtectedKeyword")
    THEN "PrivateMethodAccess"
    ELSE "PrivateFunctionAccess"

\* The access of functionCallIdentifierFromTreeNode: export makes a public
\* function, private or protected a private method; otherwise a method is
\* public and a top-level function private.
accessFromTreeNode(fnDeclaration) ==
    IF hasKeyword(fnDeclaration, "ExportKeyword")
    THEN "PublicFunctionAccess"
    ELSE IF hasKeyword(fnDeclaration, "PrivateKeyword")
            \/ hasKeyword(fnDeclaration, "ProtectedKeyword")
    THEN "PrivateMethodAccess"
    ELSE IF fnDeclaration.kind = "MethodDeclaration"
    THEN "PublicMethodAccess"
    ELSE "PrivateFunctionAccess"

functionCallIdentifierFromTreeNode(fnDeclaration) ==
    FunctionCallIdentifier(fnDeclaration.name, fnDeclaration.path,
                           determineScope(fnDeclaration.parents),
                           accessFromTreeNode(fnDeclaration))

(***************************************************************************)
(* Requirements.                                                           *)
(***************************************************************************)
AddParameterRequirement(fn, parameterType, parameterName, populateInTests, why) ==
    [kind |-> "Add Parameter", functionWithAdditionalParameter |-> fn,
     parameterType |-> parameterType, parameterName |-> parameterName,
     populateInTests |-> populateInTests, why |-> why]

PassArgumentRequirement(enclosingFunction, fn, argumentValue, why) ==
    [kind |-> "Pass Argument", enclosingFunction |-> enclosingFunction,
     functionWithAdditionalParameter |-> fn, argumentValue |-> argumentValue,
     why |-> why]

PassDummyInTestsRequirement(fn, dummyValue, additionalImport) ==
    [kind |-> "Pass Dummy In Tests", functionWithAdditionalParameter |-> fn,
     dummyValue |-> dummyValue, additionalImport |-> additionalImport,
     why |-> Undefined]

\* A migration that hands the downstream project the requirement as it is.
SameDownstream(requirement) == requirement

\* The requirement a downstream project applies: a local type that is
\* exported under a package name is imported from that package.
DownstreamRequirement(requirement) ==
    IF requirement.parameterType.kind = "local"
       /\ requirement.parameterType.externalPath # Undefined
    THEN [requirement EXCEPT !.parameterType =
             LibraryImport(requirement.parameterType.name,
                           requirement.parameterType.externalPath)]
    ELSE requirement

AddMigrationRequirement(downstreamRequirement, why) ==
    [kind |-> "Add Migration",
     downstreamRequirement |-> DownstreamRequirement(downstreamRequirement),
     why |-> why]

isAddParameterRequirement(r) == r.kind = "Add Parameter"

isPassArgumentRequirement(r) == r.kind = "Pass Argument"

isPassDummyInTests(r) == r.kind = "Pass Dummy In Tests"

isAddMigrationRequirement(r) == r.kind = "Add Migration"

\* AddParameterRequirement.sameRequirement
sameAddParameterRequirement(this, other) ==
    /\ isAddParameterRequirement(other)
    /\ sameFunctionCallIdentifier(this.functionWithAdditionalParameter,
                                  other.functionWithAdditionalParameter)
    /\ this.parameterName = other.parameterName

\* The function a requirement is about.
TargetOf(r) ==
    IF isAddMigrationRequirement(r)
    THEN r.downstreamRequirement.functionWithAdditionalParameter
    ELSE r.functionWithAdditionalParameter

\* A comparison that takes two Pass Arguments to the same function for the
\* same requirement, whatever their enclosing functions.
sameKindAndTarget(r1, r2) ==
    /\ r1.kind = r2.kind
    /\ sameFunctionCallIdentifier(TargetOf(r1), TargetOf(r2))

\* sameRequirement of the other requirement classes: same kind, same
\* function and, for Pass Argument, same enclosing function.
sameRequirement(r1, r2) ==
    IF isAddParameterRequirement(r1) THEN sameAddParameterRequirement(r1, r2)
    ELSE /\ r1.kind = r2.kind
         /\ sameFunctionCallIdentifier(TargetOf(r1), TargetOf(r2))
         /\ (isPassArgumentRequirement(r1) =>
                sameFunctionCallIdentifier(r1.enclosingFunction, r2.enclosingFunction))

(***************************************************************************)
(* Consequences.                                                           *)
(***************************************************************************)
emptyConsequences == [concomitantChanges |-> <<>>, prerequisiteChanges |-> <<>>]

\* A combination that forgets the prerequisite changes of its first argument.
combineForgettingPrerequisites(c1, c2) ==
    [concomitantChanges |-> c1.concomitantChanges \o c2.concomitantChanges,
     prerequisiteChanges |-> c2.prerequisiteChanges]

combineConsequences(c1, c2) ==
    [concomitantChanges |-> c1.concomitantChanges \o c2.concomitantChanges,
     prerequisiteChanges |-> c1.prerequisiteChanges \o c2.prerequisiteChanges]

\* A change that is filed as a prerequisite instead.
prerequisiteChange(r) == [concomitantChanges |-> <<>>, prerequisiteChanges |-> <<r>>]

concomitantChange(r) == [concomitantChanges |-> <<r>>, prerequisiteChanges |-> <<>>]

\* A search for parameters that takes one of any type.
AnyParameterMatches(fnDeclaration, typeName) == fnDeclaration.params

\* A search for suitable parameters that lists the last one first.
SuitableParametersBackwards(fnDeclaration, typeName) ==
    LET matches == SelectSeq(fnDeclaration.params, LAMBDA prm : prm.type = typeName)
    IN  [i \in 1..Len(matches) |-> matches[Len(matches) + 1 - i]]

\* /SyntaxList/Parameter[/TypeReference[@value=typeName]]/Identifier
SuitableParameterMatches(fnDeclaration, typeName) ==
    SelectSeq(fnDeclaration.params, LAMBDA prm : prm.type = typeName)

consequencesOfFunctionCall(requirement, enclosingFunction) ==
    IF StartsWithTest(enclosingFunction.path) THEN emptyConsequences
    ELSE
    LET suitableParameterMatches ==
            SuitableParameterMatches(enclosingFunction, requirement.parameterType.name)
    IN  IF Len(suitableParameterMatches) > 0
        THEN concomitantChange(
                PassArgumentRequirement(
                    functionCallIdentifierFromTreeNode(enclosingFunction),
                    requirement.functionWithAdditionalParameter,
                    suitableParameterMatches[1].name,
                    requirement))
        ELSE LET passArgument ==
                    PassArgumentRequirement(
                        functionCallIdentifierFromTreeNode(enclosingFunction),
                        requirement.functionWithAdditionalParameter,
                        requirement.parameterName,
                        requirement)
                 newParameterForMe ==
                    AddParameterRequirement(
                        functionCallIdentifierFromTreeNode(enclosingFunction),
                        requirement.parameterType,
                        requirement.parameterName,
                        requirement.populateInTests,
                        passArgument)
             IN [concomitantChanges |-> <<passArgument>>,
                 prerequisiteChanges |-> <<newParameterForMe>>]

\* findMatches(project, glob, //FunctionDeclaration[inner] | //MethodDeclaration[inner]):
\* the declarations in the files of glob whose body holds a matching call,
\* in document order. The body of a declaration holds the calls of the
\* declarations nested in it.
FindEnclosingDeclarations(p, glob, innerExpression) ==
    SelectSeq(p, LAMBDA d :
        /\ GlobMatches(glob, d.path)
        /\ d.kind \in {"FunctionDeclaration", "MethodDeclaration"}
        /\ \E k \in 1..Len(p) :
              /\ (p[k] = d \/ NestedIn(p[k], d))
              /\ \E c \in p[k].calls : CallMatches(innerExpression, c))

RECURSIVE ReduceConsequences(_, _, _)
ReduceConsequences(requirement, matches, cc) ==
    IF matches = <<>> THEN cc
    ELSE ReduceConsequences(requirement, Tail(matches),
            combineConsequences(cc, consequencesOfFunctionCall(requirement, Head(matches))))

findConsequencesOfAddParameter(p, requirement) ==
    LET passDummyInTests ==
            PassDummyInTestsRequirement(
                requirement.functionWithAdditionalParameter,
                requirement.populateInTests.dummyValue,
                requirement.populateInTests.additionalImport)
        innerExpression ==
            functionCallPathExpression(requirement.functionWithAdditionalParameter)
        testConsequences ==
            IF isPublicFunctionAccess(requirement.functionWithAdditionalParameter.access)
            THEN concomitantChange(passDummyInTests) ELSE emptyConsequences
        externalConsequences ==
            concomitantChange(AddMigrationRequirement(requirement, requirement))
        globalConsequences == combineConsequences(testConsequences, externalConsequences)
        matches ==
            FindEnclosingDeclarations(p,
                globFromAccess(requirement.functionWithAdditionalParameter),
                innerExpression)
        srcConsequences == ReduceConsequences(requirement, matches, emptyConsequences)
    IN  combineConsequences(srcConsequences, globalConsequences)

\* Requirement.findConsequences: only Add Parameter has consequences.
findConsequences(p, requirement) ==
    IF isAddParameterRequirement(requirement)
    THEN findConsequencesOfAddParameter(p, requirement)
    ELSE emptyConsequences

(***************************************************************************)
(* The planner: changesetForRequirement.                                   *)
(* A changeset is [parent, requirements]: the changeset it is a            *)
(* prerequisite of (0 for the root's) and its requirements (the            *)
(* requirement it was planned for, then the concomitant changes). The      *)
(* prerequisites of changeset n are the changesets whose parent is n, in   *)
(* order.                                                                  *)
(***************************************************************************)
\* A planner that never recognises a requirement it has planned before.
NeverChecked(done, thisOne) == FALSE

\* A planner that compares a requirement with the last planned one only.
CheckedLast(done, thisOne) ==
    done # <<>> /\ sameRequirement(done[Len(done)], thisOne)

\* checked.some(o => sameRequirement(o, thisOne))
AlreadyChecked(done, thisOne) ==
    \E i \in 1..Len(done) : sameRequirement(done[i], thisOne)

RECURSIVE DistinctInto(_, _)
DistinctInto(result, requirements) ==
    IF requirements = <<>> THEN result
    ELSE CHOOSE all \in
            {DistinctInto(soFar, rest) :
                soFar \in {IF AlreadyChecked(result, Head(requirements)) THEN result
                           ELSE Append(result, Head(requirements))},
                rest \in {Tail(requirements)}} : TRUE

distinct(requirements) == DistinctInto(<<>>, requirements)

RECURSIVE Waiting(_, _)
Waiting(requirements, parent) ==
    IF requirements = <<>> THEN <<>>
    ELSE <<[req |-> Head(requirements), parent |-> parent]>>
         \o Waiting(Tail(requirements), parent)

\* Plan the next waiting requirement: find its consequences, keep it and
\* its concomitant changes as a new changeset, and queue its prerequisite
\* changes as prerequisites of that changeset.
ChangesetForRequirement ==
    /\ UNCHANGED handler
    /\ pc = "planning"
    /\ unchecked # <<>>
    /\ Len(changesets) < MaxChangesets
    /\ ~AlreadyChecked(checked, Head(unchecked).req)
    /\ \E thisOne \in {Head(unchecked).req} :
       \E theseConsequences \in {findConsequences(project, thisOne)} :
       \E planned \in {DistinctInto(checked,
                         <<thisOne>> \o theseConsequences.concomitantChanges)} :
       LET me == Len(changesets) + 1
       IN  /\ checked' = planned
           /\ changesets' = Append(changesets,
                 [parent |-> Head(unchecked).parent,
                  requirements |-> SubSeq(planned, Len(checked) + 1, Len(planned))])
           /\ unchecked' = Waiting(theseConsequences.prerequisiteChanges, me)
                              \o Tail(unchecked)
    /\ UNCHANGED <<project, root, pc, steps, cursor, imports, staged, report>>

\* A requirement equal to one already planned is dropped.
DropAlreadyChecked ==
    /\ UNCHANGED handler
    /\ pc = "planning"
    /\ unchecked # <<>>
    /\ AlreadyChecked(checked, Head(unchecked).req)
    /\ unchecked' = Tail(unchecked)
    /\ UNCHANGED <<project, root, pc, checked, changesets, steps, cursor,
                   imports, staged, report>>

\* Nothing is waiting: the root's changeset is complete.
ChangesetComplete ==
    /\ UNCHANGED handler
    /\ pc = "planning"
    /\ unchecked = <<>>
    /\ pc' = "planned"
    /\ UNCHANGED <<project, root, unchecked, checked, changesets, steps, cursor,
                   imports, staged, report>>

(***************************************************************************)
(* Reading a changeset.                                                    *)
(***************************************************************************)
Prerequisites(css, n) == {m \in 1..Len(css) : css[m].parent = n}

RECURSIVE Ancestors(_, _)
Ancestors(css, n) ==
    IF css[n].parent = 0 THEN {}
    ELSE {css[n].parent} \cup Ancestors(css, css[n].parent)

\* The changesets that must be implemented before changeset n's requirements.
Descendants(css, n) == {m \in 1..Len(css) : n \in Ancestors(css, m)}

RECURSIVE FlattenFrom(_, _, _)
\* allRequirements: prerequisites flattened depth-first, then the requirements.
\* Each entry is <<changeset, index in its requirements>>.
\* A flattening that lists the requirements before the prerequisites.
requirementsFirst(css, n) ==
    [i \in 1..Len(css[n].requirements) |-> <<n, i>>]
    \o FlattenFrom(css, n, 1)

allRequirements(css, n) ==
    FlattenFrom(css, n, 1)
    \o [i \in 1..Len(css[n].requirements) |-> <<n, i>>]

FlattenFrom(css, n, m) ==
    IF m > Len(css) THEN <<>>
    ELSE (IF css[m].parent = n THEN allRequirements(css, m) ELSE <<>>)
         \o FlattenFrom(css, n, m + 1)

RequirementAt(css, at) == css[at[1]].requirements[at[2]]

\* Every requirement of the planned changeset, as allRequirements lists them.
Planned(css) ==
    IF css = <<>> THEN <<>>
    ELSE LET order == allRequirements(css, 1)
         IN  [k \in 1..Len(order) |-> RequirementAt(css, order[k])]

(***************************************************************************)
(* Implementing one requirement.                                           *)
(* The content of a project is its declarations and, per file, its import  *)
(* declarations [names, location], first statement first. An               *)
(* implementation reads the content as last flushed and returns            *)
(*   [project, imports, report, threw]                                     *)
(* the content with its edits, its report and whether it threw.            *)
(***************************************************************************)
emptyReport == [unimplemented |-> <<>>, implemented |-> <<>>]

\* A report that lists what could not be implemented as implemented too.
reportInBoth(requirement, message) ==
    [unimplemented |-> <<[requirement |-> requirement, message |-> message]>>,
     implemented |-> <<requirement>>]

reportUnimplemented(requirement, message) ==
    [unimplemented |-> <<[requirement |-> requirement, message |-> message]>>,
     implemented |-> <<>>]

reportImplemented(requirement) ==
    [unimplemented |-> <<>>, implemented |-> <<requirement>>]

\* A combination that puts the later report in front.
combineBackwards(report1, report2) ==
    [unimplemented |-> report2.unimplemented \o report1.unimplemented,
     implemented |-> report2.implemented \o report1.implemented]

combine(report1, report2) ==
    [unimplemented |-> report1.unimplemented \o report2.unimplemented,
     implemented |-> report1.implemented \o report2.implemented]

\* populateInTests without an additionalImport
NoAdditionalImport == [kind |-> Undefined]

isLibraryImport(i) == i.kind = "library"

calculateRelativePath(from, to) == to

\* import { names } from "location"
ImportDeclaration(names, location) ==
    [names |-> names, location |-> location, braces |-> TRUE]

\* import * as name from "location", import name from "location": an import
\* declaration without braces
ImportWithoutBraces(name, location) ==
    [names |-> <<name>>, location |-> location, braces |-> FALSE]

\* //ImportDeclaration//Identifier[@value=name]
ExistingImport(source, name) ==
    SelectSeq(source, LAMBDA imp : \E i \in 1..Len(imp.names) : imp.names[i] = name)

\* //ImportDeclaration[//StringLiteral[@value=location]], as positions
LocationImportMatches(source, location) ==
    {i \in 1..Len(source) : source[i].location = location}

Min(S) == CHOOSE x \in S : \A y \in S : x <= y

\* AddImport.addImport on the import declarations of one file: whether an
\* import was added, and the import declarations afterwards.
addImportToSource(source, path, what) ==
    IF Len(ExistingImport(source, what.name)) > 0
    THEN [added |-> FALSE, source |-> source]
    ELSE LET location == IF isLibraryImport(what) THEN what.location
                         ELSE calculateRelativePath(path, what.localPath)
             locationImportMatches == LocationImportMatches(source, location)
         IN  IF locationImportMatches # {}
             THEN LET first == Min(locationImportMatches)
                  IN  [added |-> TRUE,
                       source |-> IF source[first].braces
                                  THEN [source EXCEPT ![first].names = <<what.name>> \o @]
                                  ELSE source]
             ELSE [added |-> TRUE,
                   source |-> <<ImportDeclaration(<<what.name>>, location)>> \o source]

\* AddImport.addImport: sources[0] of a file that is not in the project is
\* undefined, and reading it throws.
addImport(imps, path, what) ==
    IF path \notin DOMAIN imps
    THEN [threw |-> TRUE, added |-> FALSE, imports |-> imps]
    ELSE LET result == addImportToSource(imps[path], path, what)
         IN  [threw |-> FALSE, added |-> result.added,
              imports |-> [imps EXCEPT ![path] = result.source]]

scopePathExpressionComponents(s) ==
    IF s = <<>> THEN <<>>
    ELSE <<[node |-> IF isClassAroundMethod(Head(s)) THEN "ClassDeclaration"
                     ELSE "ModuleDeclaration",
            identifier |-> Head(s).name]>>

functionDeclarationPathExpression(fn) ==
    [components |-> scopePathExpressionComponents(fn.enclosingScope),
     methodOrFunction |->
        IF fn.enclosingScope # <<>> /\ isClassAroundMethod(Head(fn.enclosingScope))
        THEN "MethodDeclaration" ELSE "FunctionDeclaration",
     identification |-> fn.name]

\* Whether a declaration is matched by //component//...//declaration: the
\* components are found, outermost first, among the nodes above it.
DeclarationMatches(pxe, d) ==
    /\ d.kind = pxe.methodOrFunction
    /\ d.name = pxe.identification
    /\ \A i \in 1..Len(pxe.components) :
          \E j \in 1..Len(d.parents) :
              /\ d.parents[j].node = pxe.components[i].node
              /\ d.parents[j].identifier = pxe.components[i].identifier

\* findMatches(project, parser, filePath, declaration path expression), as
\* positions in the project.
FindDeclarations(p, filePath, pxe) ==
    {i \in 1..Len(p) : p[i].path = filePath /\ DeclarationMatches(pxe, p[i])}

DeclarationNotFound == "Function declaration not found"
AmbiguousDeclaration == "More than one function declaration matched. I'm confused."
CallNotFound == "Function not found"

\* openParen.$value = `(${parameterName}: ${parameterType.name}, `
WithParameter(d, name, type) ==
    [d EXCEPT !.params = <<[name |-> name, type |-> type]>> \o @]

\* An Add Parameter that edits the first declaration it finds, however many
\* there are.
implementAddParameterOnFirst(p, imps, requirement) ==
    LET fn == requirement.functionWithAdditionalParameter
        importAdded == addImport(imps, fn.filePath, requirement.parameterType)
        matches == FindDeclarations(p, fn.filePath, functionDeclarationPathExpression(fn))
    IN  IF importAdded.threw
        THEN [project |-> p, imports |-> imps, report |-> emptyReport, threw |-> TRUE]
        ELSE IF matches = {}
        THEN [project |-> p, imports |-> importAdded.imports, threw |-> FALSE,
              report |-> reportUnimplemented(requirement, DeclarationNotFound)]
        ELSE [project |-> [i \in 1..Len(p) |->
                              IF i = Min(matches)
                              THEN WithParameter(p[i], requirement.parameterName,
                                                 requirement.parameterType.name)
                              ELSE p[i]],
              imports |-> importAdded.imports, threw |-> FALSE,
              report |-> reportImplemented(requirement)]

implementAddParameter(p, imps, requirement) ==
    LET fn == requirement.functionWithAdditionalParameter
        importAdded == addImport(imps, fn.filePath, requirement.parameterType)
        matches == FindDeclarations(p, fn.filePath, functionDeclarationPathExpression(fn))
    IN  IF importAdded.threw
        THEN [project |-> p, imports |-> imps, report |-> emptyReport, threw |-> TRUE]
        ELSE IF matches = {}
        THEN [project |-> p, imports |-> importAdded.imports, threw |-> FALSE,
              report |-> reportUnimplemented(requirement, DeclarationNotFound)]
        ELSE IF 1 < Cardinality(matches)
        THEN [project |-> p, imports |-> importAdded.imports, threw |-> FALSE,
              report |-> reportUnimplemented(requirement, AmbiguousDeclaration)]
        ELSE [project |-> [i \in 1..Len(p) |->
                              IF i \in matches
                              THEN WithParameter(p[i], requirement.parameterName,
                                                 requirement.parameterType.name)
                              ELSE p[i]],
              imports |-> importAdded.imports, threw |-> FALSE,
              report |-> reportImplemented(requirement)]

\* The given declarations and the declarations nested in them.
Within(p, declarations) ==
    {k \in 1..Len(p) : \E i \in declarations : k = i \/ NestedIn(p[k], p[i])}

\* The calls, as <<declaration, call expression>>, that lie in one of the
\* given declarations and match the call path expression of fn.
CallsIn(p, declarations, fn) ==
    {site \in declarations \X UNION {p[i].calls : i \in declarations} :
        /\ site[2] \in p[site[1]].calls
        /\ CallMatches(functionCallPathExpression(fn), site[2])}

\* openParen.$value = `(${value}, ` at each of the given calls
WithArgument(p, sites, value) ==
    [i \in 1..Len(p) |->
        [p[i] EXCEPT !.passed =
            [c \in p[i].calls |->
                IF <<i, c>> \in sites THEN <<value>> \o p[i].passed[c]
                ELSE p[i].passed[c]]]]

\* A Pass Argument that looks for the calls in every declaration of the
\* enclosing function's file.
passArgumentAnywhereInFile(p, imps, requirement) ==
    LET inFile == {i \in 1..Len(p) : p[i].path = requirement.enclosingFunction.filePath}
        matches == CallsIn(p, inFile, requirement.functionWithAdditionalParameter)
    IN  IF matches = {}
        THEN [project |-> p, imports |-> imps, threw |-> FALSE,
              report |-> reportUnimplemented(requirement, CallNotFound)]
        ELSE [project |-> WithArgument(p, matches, requirement.argumentValue),
              imports |-> imps, threw |-> FALSE,
              report |-> reportImplemented(requirement)]

\* passArgument / applyPassArgument
implementPassArgument(p, imps, requirement) ==
    LET enclosing == FindDeclarations(p, requirement.enclosingFunction.filePath,
                        functionDeclarationPathExpression(requirement.enclosingFunction))
        matches == CallsIn(p, Within(p, enclosing),
                           requirement.functionWithAdditionalParameter)
    IN  IF matches = {}
        THEN [project |-> p, imports |-> imps, threw |-> FALSE,
              report |-> reportUnimplemented(requirement, CallNotFound)]
        ELSE [project |-> WithArgument(p, matches, requirement.argumentValue),
              imports |-> imps, threw |-> FALSE,
              report |-> reportImplemented(requirement)]

\* The declarations in the files of test*/**/*.ts
InTestFiles(p) == {i \in 1..Len(p) : p[i].path[1] = "test"}

\* A Pass Dummy In Tests that adds its import to every test file, changed
\* or not.
passDummyImportingEverywhere(p, imps, requirement) ==
    LET matches == CallsIn(p, InTestFiles(p), requirement.functionWithAdditionalParameter)
        addImportTo == IF requirement.additionalImport.kind # Undefined
                       THEN {p[i].path : i \in InTestFiles(p)} ELSE {}
    IN  [project |-> WithArgument(p, matches, requirement.dummyValue),
         imports |-> [f \in DOMAIN imps |->
                         IF f \in addImportTo
                         THEN addImportToSource(imps[f], f,
                                  requirement.additionalImport).source
                         ELSE imps[f]],
         threw |-> FALSE,
         report |-> IF matches = {} THEN emptyReport ELSE reportImplemented(requirement)]

\* passDummyInTests: the calls in test files get the dummy value, the
\* project is flushed, then each changed file gets the additional import.
passDummyInTests(p, imps, requirement) ==
    LET matches == CallsIn(p, InTestFiles(p), requirement.functionWithAdditionalParameter)
        filesChanged == {p[site[1]].path : site \in matches}
        addImportTo == IF requirement.additionalImport.kind # Undefined
                       THEN filesChanged ELSE {}
    IN  IF matches = {}
        THEN [project |-> p, imports |-> imps, threw |-> FALSE, report |-> emptyReport]
        ELSE [project |-> WithArgument(p, matches, requirement.dummyValue),
              imports |-> [f \in DOMAIN imps |->
                              IF f \in addImportTo
                              THEN addImportToSource(imps[f], f,
                                       requirement.additionalImport).source
                              ELSE imps[f]],
              threw |-> FALSE,
              report |-> reportImplemented(requirement)]

\* An Add Migration is handed to the migration sink; the project is not
\* touched.
implementAddMigration(p, imps, requirement) ==
    [project |-> p, imports |-> imps, threw |-> FALSE,
     report |-> reportImplemented(requirement)]

\* Requirement.implement
implement(p, imps, requirement) ==
    IF isAddParameterRequirement(requirement)
    THEN implementAddParameter(p, imps, requirement)
    ELSE IF isPassDummyInTests(requirement)
    THEN passDummyInTests(p, imps, requirement)
    ELSE IF isPassArgumentRequirement(requirement)
    THEN implementPassArgument(p, imps, requirement)
    ELSE implementAddMigration(p, imps, requirement)

(***************************************************************************)
(* The executor: prerequisite changesets first, then the requirements of   *)
(* the changeset in order; the project is flushed after each requirement.  *)
(***************************************************************************)
ExecutionOrder(css) == IF css = <<>> THEN <<>> ELSE allRequirements(css, 1)

\* implement(project, r1) of implementInSequenceWithFlushes: the requirement
\* is implemented against the content as last flushed and its edits wait
\* for the flush. Pass Dummy In Tests flushes its call edits itself before
\* it adds imports. An implementation that throws ends the run.
Implement ==
    /\ UNCHANGED handler
    /\ pc = "planned"
    /\ cursor <= Len(ExecutionOrder(changesets))
    /\ \E at \in {ExecutionOrder(changesets)[cursor]} :
       \E r1 \in {RequirementAt(changesets, at)} :
       \E report1 \in {implement(project, imports, r1)} :
          IF report1.threw
          THEN /\ pc' = "failed"
               /\ steps' = Append(steps, [op |-> "implement", at |-> at])
               /\ UNCHANGED <<project, staged>>
          ELSE /\ pc' = "flush"
               /\ staged' = [project |-> report1.project,
                             imports |-> report1.imports,
                             report |-> report1.report]
               /\ IF isPassDummyInTests(r1)
                  THEN /\ project' = report1.project
                       /\ steps' = steps \o <<[op |-> "implement", at |-> at],
                                              [op |-> "flush in implement", at |-> at]>>
                  ELSE /\ project' = project
                       /\ steps' = Append(steps, [op |-> "implement", at |-> at])
    /\ UNCHANGED <<root, unchecked, checked, changesets, cursor, imports, report>>

\* An executor that goes on to the next requirement without a flush.
GoOnWithoutFlush ==
    /\ UNCHANGED handler
    /\ pc = "flush"
    /\ report' = combine(report, staged.report)
    /\ steps' = Append(steps, [op |-> "flush", at |-> ExecutionOrder(changesets)[cursor]])
    /\ cursor' = cursor + 1
    /\ pc' = "planned"
    /\ UNCHANGED <<project, imports, root, unchecked, checked, changesets, staged>>

\* project.flush() of implementInSequenceWithFlushes, then
\* combine(report, report1)
Flush ==
    /\ UNCHANGED handler
    /\ pc = "flush"
    /\ project' = staged.project
    /\ imports' = staged.imports
    /\ report' = combine(report, staged.report)
    /\ steps' = Append(steps, [op |-> "flush", at |-> ExecutionOrder(changesets)[cursor]])
    /\ cursor' = cursor + 1
    /\ pc' = "planned"
    /\ UNCHANGED <<root, unchecked, checked, changesets, staged>>

Finished ==
    /\ UNCHANGED handler
    /\ pc = "planned"
    /\ cursor > Len(ExecutionOrder(changesets))
    /\ pc' = "done"
    /\ UNCHANGED <<project, root, unchecked, checked, changesets, steps, cursor,
                   imports, staged, report>>

(***************************************************************************)
(* The projects and root requirements the model is run on.                 *)
(*                                                                         *)
(* Three source declarations f, g (src/a.ts) and h (src/b.ts) and one test *)
(* declaration t (test/a.ts). In a project of functions they are top-level *)
(* functions that call each other by name; in a project of methods f and g *)
(* are methods of class A, h a method of class B, and calls are this.x(..) *)
(* or Class.x(..). The root requirement adds a parameter to f, with the    *)
(* access f's declaration has.                                             *)
(***************************************************************************)
SrcA == Path("src", "a.ts")
SrcB == Path("src", "b.ts")
TestA == Path("test", "a.ts")

CallSets(exprs) == {cs \in SUBSET exprs : Cardinality(cs) <= MaxCalls}

Params(hasContext) ==
    IF hasContext
    THEN <<[name |-> "params", type |-> "P"], [name |-> "ctx", type |-> TypeName],
           [name |-> "other", type |-> TypeName]>>
    ELSE <<[name |-> "s", type |-> "string"]>>

FunctionKeywords == {{}, {"ExportKeyword"}}
MethodKeywords == {{}, {"PrivateKeyword"}, {"ProtectedKeyword"}}

TopLevelFunction(name, path, keywords, hasContext, calls) ==
    Declaration(name, path, "FunctionDeclaration", <<>>, keywords,
                Params(hasContext), calls)

MethodInClass(class, name, path, keywords, hasContext, calls) ==
    Declaration(name, path, "MethodDeclaration", <<ClassDeclaration(class)>>,
                keywords, Params(hasContext), calls)

ProjectsOfFunctions ==
    { << TopLevelFunction("f", SrcA, kf, FALSE, cf),
         TopLevelFunction("g", SrcA, kg, pg, cg),
         TopLevelFunction("h", SrcB, kh, FALSE, ch),
         TopLevelFunction("t", TestA, {"ExportKeyword"}, FALSE, {<<"f">>}) >> :
      kf \in FunctionKeywords, cf \in CallSets({<<"f">>, <<"g">>}),
      kg \in FunctionKeywords, pg \in BOOLEAN, cg \in CallSets({<<"f">>, <<"g">>, <<"h">>}),
      kh \in FunctionKeywords, ch \in CallSets({<<"f">>, <<"g">>, <<"h">>}) }

ProjectsOfMethods ==
    { << MethodInClass("A", "f", SrcA, kf, FALSE, cf),
         MethodInClass("A", "g", SrcA, kg, pg, cg),
         MethodInClass("B", "h", SrcB, kh, FALSE, ch),
         TopLevelFunction("t", TestA, {"ExportKeyword"}, FALSE, {<<"A", "f">>}) >> :
      kf \in {{}, {"PrivateKeyword"}}, cf \in CallSets({<<"this", "f">>, <<"A", "g">>}),
      kg \in MethodKeywords, pg \in BOOLEAN,
      cg \in CallSets({<<"this", "f">>, <<"A", "f">>, <<"B", "h">>}),
      kh \in {{}, {"PrivateKeyword"}}, ch \in CallSets({<<"A", "f">>, <<"A", "g">>}) }

RootRequirement(proj, parameterType) ==
    AddParameterRequirement(functionCallIdentifierFromTreeNode(proj[1]),
                            parameterType, ParameterName, PopulateInTests,
                            "I want to use the context in here")

\* The files of a project, none of which imports anything.
NoImports(proj) == [f \in {proj[i].path : i \in 1..Len(proj)} |-> <<>>]

InitWith(proj, parameterType) ==
    /\ handler = NoHandler
    /\ project = proj
    /\ imports = NoImports(proj)
    /\ staged = [project |-> proj, imports |-> NoImports(proj), report |-> emptyReport]
    /\ report = emptyReport
    /\ root = RootRequirement(proj, parameterType)
    /\ pc = "planning"
    /\ unchecked = <<[req |-> RootRequirement(proj, parameterType), parent |-> 0]>>
    /\ checked = <<>>
    /\ changesets = <<>>
    /\ steps = <<>>
    /\ cursor = 1

Init ==
    \E proj \in ProjectsOfFunctions \cup ProjectsOfMethods :
    \E parameterType \in ParameterTypes :
        InitWith(proj, parameterType)

Next ==
    \/ ChangesetForRequirement
    \/ DropAlreadyChecked
    \/ ChangesetComplete

Spec == Init /\ [][Next]_vars

\* Projects of exported functions that call each other in every way,
\* themselves included.
ProjectsWithCycles ==
    {proj \in ProjectsOfFunctions :
        /\ proj[2].keywords = {"ExportKeyword"}
        /\ proj[3].keywords = {"ExportKeyword"}
        /\ Len(SuitableParameterMatches(proj[2], TypeName)) = 0}

InitWithCycles ==
    \E proj \in ProjectsWithCycles :
        InitWith(proj, LibraryImport(TypeName, LibraryLocation))

\* The planner is a chain of promise callbacks: a step that can run does run.
FairSpec == InitWithCycles /\ [][Next]_vars /\ WF_vars(Next)

\* Planning followed by the implementation of the planned changeset.
NextExec ==
    \/ Next
    \/ Implement
    \/ Flush
    \/ Finished

ExecSpec == InitWithCycles /\ [][NextExec]_vars

(***************************************************************************)
(* Implementing a list of requirements that nobody planned: requirements   *)
(* about functions that are declared once, twice or not at all, in files   *)
(* that import the type already, import something else from its library,   *)
(* or import nothing.                                                      *)
(***************************************************************************)
MaxRequirements == 2   \* requirements in a list handed to the executor

InNamespace(namespace, name, path, keywords, hasContext, calls) ==
    Declaration(name, path, "FunctionDeclaration", <<ModuleDeclaration(namespace)>>,
                keywords, Params(hasContext), calls)

\* e and the method A.m may call f; f may be declared a second time, inside
\* a namespace of the same file; a test may call f.
ProjectsToImplement ==
    { << TopLevelFunction("e", SrcA, {}, FALSE, ce),
         MethodInClass("A", "m", SrcA, {}, FALSE, {<<"f">>}),
         TopLevelFunction("f", SrcA, {"ExportKeyword"}, FALSE, {}) >>
      \o (IF twice THEN <<InNamespace("N", "f", SrcA, {}, FALSE, {})>> ELSE <<>>)
      \o << TopLevelFunction("t", TestA, {"ExportKeyword"}, FALSE, ct) >> :
      ce \in SUBSET {<<"f">>}, twice \in BOOLEAN, ct \in SUBSET {<<"f">>} }

ImportsToImplement(proj) ==
    { [NoImports(proj) EXCEPT ![SrcA] = source] :
      source \in { <<>>,
                   <<ImportDeclaration(<<TypeName>>, LibraryLocation)>>,
                   <<ImportDeclaration(<<"logger">>, LibraryLocation)>>,
                   <<ImportWithoutBraces("automationClient", LibraryLocation)>> } }

FunctionF == FunctionCallIdentifier("f", SrcA, <<>>, "PublicFunctionAccess")
FunctionE == FunctionCallIdentifier("e", SrcA, <<>>, "PrivateFunctionAccess")
MethodM ==
    FunctionCallIdentifier("m", SrcA, <<ClassAroundMethod("A")>>, "PublicMethodAccess")
\* functions that the project does not declare: in a file it has, and in a
\* file it does not have
FunctionK == FunctionCallIdentifier("k", SrcA, <<>>, "PrivateFunctionAccess")
FunctionElsewhere == FunctionCallIdentifier("f", SrcB, <<>>, "PublicFunctionAccess")

AddParameterTo(fn) ==
    AddParameterRequirement(fn, LibraryImport(TypeName, LibraryLocation),
                            ParameterName, PopulateInTests, Undefined)

RequirementsToImplement ==
    { AddParameterTo(FunctionF),
      AddParameterTo(FunctionK),
      AddParameterTo(FunctionElsewhere),
      PassArgumentRequirement(FunctionE, FunctionF, ParameterName, Undefined),
      PassArgumentRequirement(MethodM, FunctionF, ParameterName, Undefined),
      PassDummyInTestsRequirement(FunctionF, PopulateInTests.dummyValue,
                                  PopulateInTests.additionalImport),
      PassDummyInTestsRequirement(FunctionF, PopulateInTests.dummyValue,
                                  NoAdditionalImport),
      AddMigrationRequirement(AddParameterTo(FunctionF), Undefined) }

RequirementLists ==
    UNION { [1..n -> RequirementsToImplement] : n \in 1..MaxRequirements }

InitImpl ==
    \E proj \in ProjectsToImplement :
    \E imps \in ImportsToImplement(proj) :
    \E requirements \in RequirementLists :
        /\ handler = NoHandler
        /\ project = proj
        /\ imports = imps
        /\ staged = [project |-> proj, imports |-> imps, report |-> emptyReport]
        /\ report = emptyReport
        /\ root = AddParameterTo(FunctionF)
        /\ pc = "planned"
        /\ unchecked = <<>>
        /\ checked = <<>>
        /\ changesets = <<[parent |-> 0, requirements |-> requirements]>>
        /\ steps = <<>>
        /\ cursor = 1

NextImpl ==
    \/ Implement
    \/ Flush
    \/ Finished

ImplSpec == InitImpl /\ [][NextImpl]_vars

(***************************************************************************)
(* Comparing two requirements: one that has been checked and one that is   *)
(* waiting, of any kind, about f, about a method f of class A in the same  *)
(* file, or about g, and differing or not in each of their other fields.   *)
(***************************************************************************)
FunctionsToCompare ==
    { FunctionF,
      FunctionCallIdentifier("f", SrcA, <<ClassAroundMethod("A")>>, "PublicMethodAccess"),
      FunctionCallIdentifier("f", SrcB, <<>>, "PublicFunctionAccess"),
      FunctionCallIdentifier("g", SrcA, <<>>, "PublicFunctionAccess") }

RequirementsToCompare ==
    { AddParameterRequirement(fn, parameterType, parameterName, PopulateInTests, why) :
        fn \in FunctionsToCompare,
        parameterType \in { LibraryImport(TypeName, LibraryLocation),
                            LibraryImport("Logger", LibraryLocation) },
        parameterName \in {ParameterName, "ctx"},
        why \in {"I want to use the context in here", "because"} }
    \cup
    { PassArgumentRequirement(enclosingFunction, fn, argumentValue, "because") :
        enclosingFunction \in {FunctionE, MethodM},
        fn \in FunctionsToCompare,
        argumentValue \in {ParameterName, "ctx"} }
    \cup
    { PassDummyInTestsRequirement(fn, dummyValue, NoAdditionalImport) :
        fn \in FunctionsToCompare,
        dummyValue \in {PopulateInTests.dummyValue, "undefined"} }
    \cup
    { AddMigrationRequirement(AddParameterTo(fn), why) :
        fn \in FunctionsToCompare,
        why \in {"I want to use the context in here", "because"} }

InitCompare ==
    \E r1, r2 \in RequirementsToCompare :
        /\ handler = NoHandler
        /\ project = <<>>
        /\ imports = NoImports(<<>>)
        /\ staged = [project |-> <<>>, imports |-> NoImports(<<>>), report |-> emptyReport]
        /\ report = emptyReport
        /\ root = AddParameterTo(FunctionF)
        /\ pc = "comparing"
        /\ unchecked = <<[req |-> r2, parent |-> 0]>>
        /\ checked = <<r1>>
        /\ changesets = <<>>
        /\ steps = <<>>
        /\ cursor = 1

\* checked.some(o => sameRequirement(o, thisOne)) for the one that is waiting
Compare ==
    /\ UNCHANGED handler
    /\ pc = "comparing"
    /\ pc' = IF AlreadyChecked(checked, Head(unchecked).req) THEN "same" ELSE "different"
    /\ UNCHANGED <<project, root, unchecked, checked, changesets, steps, cursor,
                   imports, staged, report>>

CompareSpec == InitCompare /\ [][Compare]_vars

(***************************************************************************)
(* The consequences of one call, found with the access that determineAccess *)
(* reads off the enclosing declaration: a function or a method, with or    *)
(* without a keyword, that calls f.                                        *)
(***************************************************************************)
consequencesOfFunctionCallImpl(requirement, enclosingFunction) ==
    IF StartsWithTest(enclosingFunction.path) THEN emptyConsequences
    ELSE
    LET suitableParameterMatches ==
            SuitableParameterMatches(enclosingFunction, requirement.parameterType.name)
        me == FunctionCallIdentifier(enclosingFunction.name, enclosingFunction.path,
                                     determineScope(enclosingFunction.parents),
                                     determineAccess(enclosingFunction))
    IN  IF Len(suitableParameterMatches) > 0
        THEN concomitantChange(
                PassArgumentRequirement(me, requirement.functionWithAdditionalParameter,
                                        suitableParameterMatches[1].name, requirement))
        ELSE LET passArgument ==
                    PassArgumentRequirement(me, requirement.functionWithAdditionalParameter,
                                            requirement.parameterName, requirement)
                 newParameterForMe ==
                    AddParameterRequirement(me, requirement.parameterType,
                                            requirement.parameterName,
                                            requirement.populateInTests, passArgument)
             IN [concomitantChanges |-> <<passArgument>>,
                 prerequisiteChanges |-> <<newParameterForMe>>]

EnclosingDeclarations ==
    { TopLevelFunction(name, path, keywords, hasContext, {<<"f">>}) :
        name \in {"e", "g", "h"}, path \in {SrcA, SrcB, TestA},
        keywords \in FunctionKeywords, hasContext \in BOOLEAN }
    \cup
    { MethodInClass("A", name, path, keywords, hasContext, {<<"f">>}) :
        name \in {"e", "g", "h"}, path \in {SrcA, SrcB, TestA},
        keywords \in MethodKeywords \cup {{"PublicKeyword"}}, hasContext \in BOOLEAN }

InitCall ==
    \E enclosingFunction \in EnclosingDeclarations :
        /\ handler = NoHandler
        /\ project = <<enclosingFunction>>
        /\ imports = NoImports(<<enclosingFunction>>)
        /\ staged = [project |-> <<enclosingFunction>>,
                     imports |-> NoImports(<<enclosingFunction>>),
                     report |-> emptyReport]
        /\ report = emptyReport
        /\ root = AddParameterTo(FunctionF)
        /\ pc = "call found"
        /\ unchecked = <<>>
        /\ checked = <<>>
        /\ changesets = <<>>
        /\ steps = <<>>
        /\ cursor = 1

\* consequencesOfFunctionCall(requirement, enclosingFunction): the
\* requirements it returns, concomitant changes first.
ConsequencesOfCall ==
    /\ UNCHANGED handler
    /\ pc = "call found"
    /\ \E consequences \in {consequencesOfFunctionCallImpl(root, project[1])} :
          checked' = consequences.concomitantChanges \o consequences.prerequisiteChanges
    /\ pc' = "consequences found"
    /\ UNCHANGED <<project, root, unchecked, changesets, steps, cursor,
                   imports, staged, report>>

CallSpec == InitCall /\ [][ConsequencesOfCall]_vars

(***************************************************************************)
(* Adding one import to a file that has up to MaxImports import            *)
(* declarations: of the type or of other names, with or without braces,    *)
(* from the library, from the local path of the type or from elsewhere.    *)
(***************************************************************************)
MaxImports == 2   \* import declarations in the file

ImportDeclarations ==
    { ImportDeclaration(<<TypeName>>, LibraryLocation),
      ImportDeclaration(<<"logger">>, LibraryLocation),
      ImportWithoutBraces("automationClient", LibraryLocation),
      ImportDeclaration(<<"logger">>, "src/HandlerContext"),
      ImportWithoutBraces(TypeName, "lodash") }

SourcesToImportInto ==
    UNION { [1..n -> ImportDeclarations] : n \in 0..MaxImports }

InitImport ==
    \E source \in SourcesToImportInto :
    \E what \in ParameterTypes :
        /\ handler = NoHandler
        /\ project = <<>>
        /\ imports = [f \in {SrcA} |-> source]
        /\ staged = [project |-> <<>>, imports |-> [f \in {SrcA} |-> source],
                     report |-> emptyReport]
        /\ report = emptyReport
        /\ root = AddParameterRequirement(FunctionF, what, ParameterName,
                                          PopulateInTests, Undefined)
        /\ pc = "importing"
        /\ unchecked = <<>>
        /\ checked = <<>>
        /\ changesets = <<>>
        /\ steps = <<>>
        /\ cursor = 1

\* AddImport.addImport(project, path, what): the file afterwards is kept
\* beside the file before, and the boolean it returns in pc.
AddImport ==
    /\ UNCHANGED handler
    /\ pc = "importing"
    /\ \E result \in {addImport(imports, SrcA, root.parameterType)} :
          /\ staged' = [staged EXCEPT !.imports = result.imports]
          /\ pc' = IF result.added THEN "returned true" ELSE "returned false"
    /\ UNCHANGED <<project, root, unchecked, checked, changesets, steps, cursor,
                   imports, report>>

ImportSpec == InitImport /\ [][AddImport]_vars

(***************************************************************************)
(* Passing a dummy in tests, once or more, with or without an additional   *)
(* import, in a project with two test files: each may call f, and each     *)
(* imports nothing, the type already, or something else from its library.  *)
(***************************************************************************)
TestB == Path("test", "b.ts")

ProjectsWithTests ==
    { << TopLevelFunction("e", SrcA, {}, FALSE, ce),
         TopLevelFunction("f", SrcA, {"ExportKeyword"}, FALSE, {}),
         TopLevelFunction("t", TestA, {}, FALSE, ca),
         TopLevelFunction("u", TestB, {}, FALSE, cb) >> :
      ce \in SUBSET {<<"f">>}, ca \in SUBSET {<<"f">>}, cb \in SUBSET {<<"f">>} }

ImportsOfTests(proj) ==
    { [NoImports(proj) EXCEPT ![TestA] = a, ![TestB] = b] :
      a \in { <<>>,
              <<ImportDeclaration(<<TypeName>>, LibraryLocation)>>,
              <<ImportDeclaration(<<"logger">>, LibraryLocation)>> },
      b \in { <<>>,
              <<ImportWithoutBraces("automationClient", LibraryLocation)>> } }

DummiesToPass ==
    { PassDummyInTestsRequirement(FunctionF, PopulateInTests.dummyValue,
                                  PopulateInTests.additionalImport),
      PassDummyInTestsRequirement(FunctionF, PopulateInTests.dummyValue,
                                  NoAdditionalImport) }

InitDummy ==
    \E proj \in ProjectsWithTests :
    \E imps \in ImportsOfTests(proj) :
    \E requirements \in UNION { [1..n -> DummiesToPass] : n \in 1..MaxRequirements } :
        /\ handler = NoHandler
        /\ project = proj
        /\ imports = imps
        /\ staged = [project |-> proj, imports |-> imps, report |-> emptyReport]
        /\ report = emptyReport
        /\ root = AddParameterTo(FunctionF)
        /\ pc = "planned"
        /\ unchecked = <<>>
        /\ checked = <<>>
        /\ changesets = <<[parent |-> 0, requirements |-> requirements]>>
        /\ steps = <<>>
        /\ cursor = 1

DummySpec == InitDummy /\ [][NextImpl]_vars

(***************************************************************************)
(* Adding a parameter to functions in nested scopes: a method m of a class *)
(* A inside a namespace N, beside which the file may declare a method m of *)
(* a class A inside a namespace M and of a class A outside any namespace,  *)
(* and a function g inside N, and perhaps inside M.                        *)
(***************************************************************************)
MethodInClassInNamespace(namespace, class, name, path) ==
    Declaration(name, path, "MethodDeclaration",
                <<ClassDeclaration(class), ModuleDeclaration(namespace)>>,
                {}, Params(FALSE), {})

ProjectsWithScopes ==
    { << MethodInClassInNamespace("N", "A", "m", SrcA),
         InNamespace("N", "g", SrcA, {"ExportKeyword"}, FALSE, {}) >>
      \o (IF inM THEN <<MethodInClassInNamespace("M", "A", "m", SrcA)>> ELSE <<>>)
      \o (IF outside THEN <<MethodInClass("A", "m", SrcA, {}, FALSE, {})>> ELSE <<>>)
      \o (IF gInM THEN <<InNamespace("M", "g", SrcA, {"ExportKeyword"}, FALSE, {})>>
          ELSE <<>>) :
      inM \in BOOLEAN, outside \in BOOLEAN, gInM \in BOOLEAN }

FunctionsInScopes ==
    { FunctionCallIdentifier("m", SrcA,
                             <<ClassAroundMethod("A"), EnclosingNamespace("N")>>,
                             "PublicMethodAccess"),
      FunctionCallIdentifier("m", SrcA, <<ClassAroundMethod("A")>>, "PublicMethodAccess"),
      FunctionCallIdentifier("g", SrcA, <<EnclosingNamespace("N")>>, "PublicFunctionAccess"),
      FunctionCallIdentifier("g", SrcA, <<>>, "PublicFunctionAccess") }

InitScopes ==
    \E proj \in ProjectsWithScopes :
    \E imps \in ImportsToImplement(proj) :
    \E requirements \in
          UNION { [1..n -> {AddParameterTo(fn) : fn \in FunctionsInScopes}] :
                  n \in 1..MaxRequirements } :
        /\ handler = NoHandler
        /\ project = proj
        /\ imports = imps
        /\ staged = [project |-> proj, imports |-> imps, report |-> emptyReport]
        /\ report = emptyReport
        /\ root = requirements[1]
        /\ pc = "planned"
        /\ unchecked = <<>>
        /\ checked = <<>>
        /\ changesets = <<[parent |-> 0, requirements |-> requirements]>>
        /\ steps = <<>>
        /\ cursor = 1

ScopeSpec == InitScopes /\ [][NextImpl]_vars

(***************************************************************************)
(* Properties of the planner.                                              *)
(***************************************************************************)
\* Requirement equality as the data model states it: the same kind, the same
\* function (name, file, scope chain) and, for Pass Argument, the same
\* enclosing function.
SameFunction(f1, f2) ==
    /\ f1.name = f2.name
    /\ f1.filePath = f2.filePath
    /\ f1.enclosingScope = f2.enclosingScope

EqualRequirements(r1, r2) ==
    /\ r1.kind = r2.kind
    /\ SameFunction(TargetOf(r1), TargetOf(r2))
    /\ (r1.kind = "Pass Argument" =>
            SameFunction(r1.enclosingFunction, r2.enclosingFunction))

\* The requirements on the path from the root's changeset down to changeset n,
\* each as <<changeset, index>>.
OnPathTo(css, n) ==
    {<<m, i>> : m \in {n} \cup Ancestors(css, n), i \in 1..MaxChangesets * 8}
    \cap {<<m, i>> \in (1..Len(css)) \X (1..MaxChangesets * 8) :
              i <= Len(css[m].requirements)}

NoEqualRequirementsOnAnyPath ==
    \A n \in 1..Len(changesets) :
        \A a, b \in OnPathTo(changesets, n) :
            a # b => ~EqualRequirements(RequirementAt(changesets, a),
                                        RequirementAt(changesets, b))

\* The prerequisite changes found for the requirement changeset n was planned for.
PrerequisiteChangesOf(n) ==
    findConsequences(project, changesets[n].requirements[1]).prerequisiteChanges

ConcomitantChangesOf(n) ==
    findConsequences(project, changesets[n].requirements[1]).concomitantChanges

Range(seq) == {seq[i] : i \in 1..Len(seq)}

\* C1: for every project and root Add Parameter requirement, planning
\* terminates, also when callers are cyclic or a function calls itself, and
\* no two equal requirements lie on a root-to-leaf path of the changeset.
C1_PlanningTerminates ==
    /\ <>(pc = "planned")
    /\ [](NoEqualRequirementsOnAnyPath)

\* Planning has finished for a project whose callers are cyclic: a changeset
\* on some path asked again for a requirement planned further up that path.
C1_Witness ==
    /\ pc = "planned"
    /\ \E n \in 1..Len(changesets) :
       \E i \in 1..Len(PrerequisiteChangesOf(n)) :
       \E m \in {n} \cup Ancestors(changesets, n) :
            EqualRequirements(PrerequisiteChangesOf(n)[i], changesets[m].requirements[1])

\* C2: in a planned changeset, prerequisites included, no two distinct
\* entries are equal requirements.
C2_EachRequirementOnce ==
    LET all == Planned(changesets)
    IN  \A i, j \in 1..Len(all) :
            i # j => ~EqualRequirements(all[i], all[j])

\* Planning has finished and one function was reached through two different
\* call paths: two different changesets asked for the same Add Parameter,
\* which is planned below them and not above (so no cycle was involved).
C2_Witness ==
    /\ pc = "planned"
    /\ \E n, m, k \in 1..Len(changesets) :
        /\ n # m
        /\ k \notin {n, m} \cup Ancestors(changesets, n) \cup Ancestors(changesets, m)
        /\ \E i \in 1..Len(PrerequisiteChangesOf(n)) :
           \E j \in 1..Len(PrerequisiteChangesOf(m)) :
                /\ EqualRequirements(PrerequisiteChangesOf(n)[i],
                                     PrerequisiteChangesOf(m)[j])
                /\ EqualRequirements(PrerequisiteChangesOf(n)[i],
                                     changesets[k].requirements[1])

AccessOf(r) == TargetOf(r).access.kind

IsPrivate(access) == access \in {"PrivateFunctionAccess", "PrivateMethodAccess"}
IsPublic(access) == access \in {"PublicFunctionAccess", "PublicMethodAccess"}

\* C3: when the root's target is private, the flattened changeset holds no
\* Pass Dummy In Tests and no Add Migration, whatever the access of callers.
C3_PrivateRootNoDummyNoMigration ==
    IsPrivate(AccessOf(root)) =>
        \A i \in 1..Len(Planned(changesets)) :
            Planned(changesets)[i].kind \notin {"Pass Dummy In Tests", "Add Migration"}

\* The migrations in the requirements list of changeset n that tell the
\* downstream project to add a parameter to function fn.
MigrationsFor(n, fn) ==
    {i \in 1..Len(changesets[n].requirements) :
        LET m == changesets[n].requirements[i]
        IN  /\ m.kind = "Add Migration"
            /\ m.downstreamRequirement.kind = "Add Parameter"
            /\ SameFunction(m.downstreamRequirement.functionWithAdditionalParameter, fn)}

\* C4: every Add Parameter on a public function or method comes with exactly
\* one Add Migration whose downstream requirement is an Add Parameter on that
\* same function, in the same requirements list.
C4_OneMigrationPerPublicTarget ==
    \A n \in 1..Len(changesets) :
        \A i \in 1..Len(changesets[n].requirements) :
            LET r == changesets[n].requirements[i]
            IN  (r.kind = "Add Parameter" /\ IsPublic(AccessOf(r))) =>
                    Cardinality(MigrationsFor(n, r.functionWithAdditionalParameter)) = 1

\* Planning has finished and a public caller of the root's function got its
\* own Add Parameter, with its migration in the same list.
C4_Witness ==
    /\ pc = "planned"
    /\ \E n \in 2..Len(changesets) :
        LET r == changesets[n].requirements[1]
        IN  /\ r.kind = "Add Parameter"
            /\ IsPublic(AccessOf(r))
            /\ MigrationsFor(n, r.functionWithAdditionalParameter) # {}

\* C5: when the parameter type is a local import with an external path, the
\* migration's downstream requirement has a library import of the same name
\* located at that external path, and the Add Parameter itself keeps the
\* local import.
C5_MigrationUsesExternalPath ==
    \A n \in 1..Len(changesets) :
        LET r == changesets[n].requirements[1]
        IN  (/\ r.kind = "Add Parameter"
             /\ root.parameterType.kind = "local"
             /\ root.parameterType.externalPath # Undefined) =>
                /\ r.parameterType = root.parameterType
                /\ \A i \in MigrationsFor(n, r.functionWithAdditionalParameter) :
                      changesets[n].requirements[i].downstreamRequirement.parameterType
                        = LibraryImport(root.parameterType.name,
                                        root.parameterType.externalPath)

\* Planning has finished for a local type with an external path, with a
\* migration for the root and for a caller.
C5_Witness ==
    /\ pc = "planned"
    /\ root.parameterType.kind = "local"
    /\ root.parameterType.externalPath # Undefined
    /\ Len(changesets) >= 2
    /\ \A n \in 1..Len(changesets) :
          MigrationsFor(n, changesets[n].requirements[1].functionWithAdditionalParameter) # {}

\* C6: a Pass Dummy In Tests for a function, carrying the dummy value and the
\* additional import of the Add Parameter, is planned exactly when the
\* function is a public function or a public method.
C6_DummyIffPublic ==
    \A i \in 1..Len(Planned(changesets)) :
        LET r == Planned(changesets)[i]
        IN  r.kind = "Add Parameter" =>
            ((\E j \in 1..Len(Planned(changesets)) :
                LET d == Planned(changesets)[j] IN
                /\ d.kind = "Pass Dummy In Tests"
                /\ SameFunction(d.functionWithAdditionalParameter,
                                r.functionWithAdditionalParameter)
                /\ d.dummyValue = r.populateInTests.dummyValue
                /\ d.additionalImport = r.populateInTests.additionalImport)
             <=> IsPublic(AccessOf(r)))

\* The declarations of the project that hold a call of function fn, as the
\* planner finds them in the files it searches for fn.
CallersOf(fn) ==
    Range(FindEnclosingDeclarations(project, globFromAccess(fn),
                                    functionCallPathExpression(fn)))

HasParameterOfType(d, typeName) ==
    \E i \in 1..Len(d.params) : d.params[i].type = typeName

\* The declaration a function identifier names.
DeclarationsOf(fn) ==
    {d \in Range(project) : SameFunction(functionCallIdentifierFromTreeNode(d), fn)}

\* Where the Add Parameter requirements are in the planned changeset.
AddParametersPlanned ==
    {i \in 1..Len(Planned(changesets)) : Planned(changesets)[i].kind = "Add Parameter"}

\* C7: when an Add Parameter's target is private, every Pass Argument and
\* Add Parameter found as its consequence has its enclosing function in the
\* target's own file; calls in other files are not touched.
C7_PrivateStaysInItsFile ==
    \A n \in 1..Len(changesets) :
        LET r == changesets[n].requirements[1]
            file == r.functionWithAdditionalParameter.filePath
        IN  (r.kind = "Add Parameter" /\ IsPrivate(AccessOf(r))) =>
                /\ \A i \in 1..Len(ConcomitantChangesOf(n)) :
                      ConcomitantChangesOf(n)[i].kind = "Pass Argument" =>
                          ConcomitantChangesOf(n)[i].enclosingFunction.filePath = file
                /\ \A i \in 1..Len(PrerequisiteChangesOf(n)) :
                      PrerequisiteChangesOf(n)[i].kind = "Add Parameter" =>
                          PrerequisiteChangesOf(n)[i]
                              .functionWithAdditionalParameter.filePath = file
                /\ \A i \in 1..Len(changesets[n].requirements) :
                      changesets[n].requirements[i].kind = "Pass Argument" =>
                          changesets[n].requirements[i].enclosingFunction.filePath = file
                /\ \A m \in Prerequisites(changesets, n) :
                      changesets[m].requirements[1]
                          .functionWithAdditionalParameter.filePath = file

\* Planning has finished for a private function that is called in its own
\* file, which got a Pass Argument, and under the same name in another file.
C7_Witness ==
    /\ pc = "planned"
    /\ \E n \in 1..Len(changesets) :
        LET r == changesets[n].requirements[1]
            fn == r.functionWithAdditionalParameter
        IN  /\ IsPrivate(AccessOf(r))
            /\ \E i \in 1..Len(ConcomitantChangesOf(n)) :
                  ConcomitantChangesOf(n)[i].kind = "Pass Argument"
            /\ \E d \in Range(project) :
                  /\ d.path # fn.filePath
                  /\ d.path[1] = "src"
                  /\ \E c \in d.calls : CallMatches(functionCallPathExpression(fn), c)

\* C8: when planning has finished, every source function that calls the
\* target of a planned Add Parameter and has no parameter of the type has an
\* Add Parameter of its own in the changeset; so the callers of callers are
\* reached at any depth.
C8_CallersOfCallers ==
    pc = "planned" =>
        \A i \in AddParametersPlanned :
            LET r == Planned(changesets)[i]
            IN  \A e \in CallersOf(r.functionWithAdditionalParameter) :
                    (~StartsWithTest(e.path)
                     /\ ~HasParameterOfType(e, r.parameterType.name)) =>
                        \E j \in AddParametersPlanned :
                            SameFunction(
                                Planned(changesets)[j].functionWithAdditionalParameter,
                                functionCallIdentifierFromTreeNode(e))

\* Planning has finished with a chain of three changesets: the target, a
\* caller of the target, and a caller of that caller.
C8_Witness ==
    /\ pc = "planned"
    /\ \E n, m \in 1..Len(changesets) :
        /\ changesets[n].parent = 1
        /\ changesets[m].parent = n
        /\ changesets[m].requirements[1].kind = "Add Parameter"
        /\ changesets[m].requirements[1].why.kind = "Pass Argument"
        /\ SameFunction(changesets[m].requirements[1].why.functionWithAdditionalParameter,
                        TargetOf(changesets[n].requirements[1]))

HasSuitableParameter(fn) ==
    \E d \in DeclarationsOf(fn) : HasParameterOfType(d, root.parameterType.name)

\* Changeset m holds an Add Parameter on function fn.
AddsParameterTo(m, fn) ==
    \E j \in 1..Len(changesets[m].requirements) :
        /\ changesets[m].requirements[j].kind = "Add Parameter"
        /\ SameFunction(changesets[m].requirements[j].functionWithAdditionalParameter, fn)

\* The Pass Argument requirements of the changeset, as <<changeset, index>>.
PassArgumentsPlanned ==
    {at \in (1..Len(changesets)) \X (1..MaxChangesets * 8) :
        /\ at[2] <= Len(changesets[at[1]].requirements)
        /\ RequirementAt(changesets, at).kind = "Pass Argument"}

\* C9 as stated: every Pass Argument names an enclosing function with a
\* suitable parameter, or an Add Parameter on that enclosing function is in
\* the same requirements list or in a prerequisite changeset of the changeset
\* that holds the Pass Argument, also for cyclic callers.
C9_AddParameterBesideOrBelow ==
    pc = "planned" =>
        \A at \in PassArgumentsPlanned :
            LET e == RequirementAt(changesets, at).enclosingFunction
            IN  \/ HasSuitableParameter(e)
                \/ AddsParameterTo(at[1], e)
                \/ \E m \in Descendants(changesets, at[1]) : AddsParameterTo(m, e)

\* C9, amended: every Pass Argument names an enclosing function with a
\* suitable parameter, or an Add Parameter on that enclosing function is
\* planned: in the same list, in a prerequisite changeset, or, when it was
\* dropped there as a duplicate, in a changeset planned earlier.
C9_AddParameterPlannedSomewhere ==
    pc = "planned" =>
        \A at \in PassArgumentsPlanned :
            LET e == RequirementAt(changesets, at).enclosingFunction
            IN  \/ HasSuitableParameter(e)
                \/ \E m \in 1..Len(changesets) :
                      /\ AddsParameterTo(m, e)
                      /\ (m <= at[1] \/ m \in Descendants(changesets, at[1]))

\* Planning has finished for cyclic callers: a Pass Argument's enclosing
\* function gets its parameter in a changeset above the one that holds the
\* Pass Argument.
C9_Witness ==
    /\ pc = "planned"
    /\ \E at \in PassArgumentsPlanned :
        LET e == RequirementAt(changesets, at).enclosingFunction
        IN  /\ ~HasSuitableParameter(e)
            /\ ~AddsParameterTo(at[1], e)
            /\ \E m \in Ancestors(changesets, at[1]) : AddsParameterTo(m, e)

\* The position in steps of the given operation on the given requirement,
\* 0 when it has not happened.
StepOf(op, at) ==
    IF \E k \in 1..Len(steps) : steps[k] = [op |-> op, at |-> at]
    THEN CHOOSE k \in 1..Len(steps) : steps[k] = [op |-> op, at |-> at]
    ELSE 0

\* C10: when a requirement of a changeset's own list is implemented, every
\* requirement of every prerequisite changeset below it has been implemented
\* and flushed.
C10_PrerequisitesFirst ==
    \A k \in 1..Len(steps) :
        steps[k].op = "implement" =>
            \A m \in Descendants(changesets, steps[k].at[1]) :
                \A j \in 1..Len(changesets[m].requirements) :
                    /\ StepOf("implement", <<m, j>>) \in 1..(k - 1)
                    /\ StepOf("flush", <<m, j>>) \in 1..(k - 1)
                    /\ StepOf("implement", <<m, j>>) < StepOf("flush", <<m, j>>)

\* The whole changeset has been implemented, and it has a prerequisite
\* changeset with a prerequisite changeset of its own.
C10_Witness ==
    /\ pc = "done"
    /\ \A k \in 1..Len(ExecutionOrder(changesets)) :
          StepOf("flush", ExecutionOrder(changesets)[k]) > 0
    /\ \E n, m \in 1..Len(changesets) :
          changesets[n].parent = 1 /\ changesets[m].parent = n

\* The Add Parameter requirements of the changeset on function fn, as
\* <<changeset, index>>.
AddParametersOn(fn) ==
    {at \in (1..Len(changesets)) \X (1..MaxChangesets * 8) :
        /\ at[2] <= Len(changesets[at[1]].requirements)
        /\ RequirementAt(changesets, at).kind = "Add Parameter"
        /\ SameFunction(RequirementAt(changesets, at).functionWithAdditionalParameter, fn)}

\* The Pass Argument implemented in step k passes the parameter that the
\* Add Parameter requirements add.
PassesNewParameter(k) ==
    RequirementAt(changesets, steps[k].at).argumentValue = root.parameterName

ImplementsPassArgument(k) ==
    /\ steps[k].op = "implement"
    /\ RequirementAt(changesets, steps[k].at).kind = "Pass Argument"

C12_FlushBetweenImplementations ==
    /\ pc = "planned" => staged.project = project /\ staged.imports = imports
    /\ \A i \in 1..Len(steps) :
        /\ (steps[i].op = "implement" /\ i > 1) =>
              /\ steps[i - 1].op = "flush"
              /\ steps[i - 1].at # steps[i].at
        /\ steps[i].op = "flush" =>
              /\ \E j \in 1..(i - 1) :
                    /\ steps[j] = [op |-> "implement", at |-> steps[i].at]
                    /\ \A k \in (j + 1)..(i - 1) : steps[k].op = "flush in implement"
              /\ \A j \in 1..Len(steps) : steps[j] = steps[i] => j = i

\* Two requirements have been implemented and flushed, and the edits of a
\* third, made to the content they left, wait for their flush.
C12_Witness ==
    /\ pc = "flush"
    /\ cursor = 3
    /\ project # staged.project
    /\ \E i \in 1..Len(steps) : steps[i].op = "flush" /\ i < Len(steps)
    /\ \E d \in 1..Len(project) : Len(project[d].params) > Len(Params(FALSE))

\* The requirements whose implementation has been flushed, in the order in
\* which they were implemented.
Flushed ==
    [k \in 1..(cursor - 1) |-> RequirementAt(changesets, ExecutionOrder(changesets)[k])]

\* The members of a sequence that a labelling marks with a label, in order.
Labelled(s, labelling, label) ==
    LET at == SelectSeq([k \in 1..Len(s) |-> k], LAMBDA k : labelling[k] = label)
    IN  [i \in 1..Len(at) |-> s[at[i]]]

MessagesOf(requirement) ==
    IF isAddParameterRequirement(requirement)
    THEN {DeclarationNotFound, AmbiguousDeclaration}
    ELSE IF isPassArgumentRequirement(requirement) THEN {CallNotFound}
    ELSE {}

\* C13: the report is the concatenation, in execution order, of one report
\* per requirement implemented so far: each requirement is in implemented,
\* or in unimplemented with the message of its failure (declaration not
\* found, ambiguous declaration, call not found), or (a Pass Dummy In Tests
\* without calls) in neither; and an unimplemented requirement does not end
\* the run: it ends when every requirement has been implemented, or when an
\* implementation throws.
C13_UnimplementedRecordedAndRunGoesOn ==
    /\ \E labelling \in [1..Len(Flushed) -> {"implemented", "unimplemented", "neither"}] :
        /\ report.implemented = Labelled(Flushed, labelling, "implemented")
        /\ Len(report.unimplemented) = Len(Labelled(Flushed, labelling, "unimplemented"))
        /\ \A i \in 1..Len(report.unimplemented) :
              /\ report.unimplemented[i].requirement
                    = Labelled(Flushed, labelling, "unimplemented")[i]
              /\ report.unimplemented[i].message
                    \in MessagesOf(report.unimplemented[i].requirement)
        /\ \A k \in 1..Len(Flushed) :
              labelling[k] = "neither" => isPassDummyInTests(Flushed[k])
    /\ pc = "done" =>
          /\ cursor = Len(ExecutionOrder(changesets)) + 1
          /\ \A k \in 1..Len(ExecutionOrder(changesets)) :
                /\ StepOf("implement", ExecutionOrder(changesets)[k]) > 0
                /\ StepOf("flush", ExecutionOrder(changesets)[k]) > 0
    /\ pc = "failed" =>
          LET r1 == RequirementAt(changesets, ExecutionOrder(changesets)[cursor])
          IN  /\ isAddParameterRequirement(r1)
              /\ r1.functionWithAdditionalParameter.filePath \notin DOMAIN imports

\* The first requirement could not be implemented, the second, a different
\* one, was implemented after it, and the run is over.
C13_Witness ==
    /\ pc = "done"
    /\ Len(Flushed) = 2
    /\ Len(report.unimplemented) = 1
    /\ report.unimplemented[1].requirement = Flushed[1]
    /\ report.implemented = <<Flushed[2]>>
    /\ Flushed[1].kind # Flushed[2].kind

\* The places where the import declarations of a file import a name.
ImportsOfName(source, name) ==
    UNION { { <<i, j>> : j \in {j \in 1..Len(source[i].names) : source[i].names[j] = name} } :
            i \in 1..Len(source) }

\* C14: a file in which an Add Parameter has been implemented, once or
\* twice, imports the name of the parameter type exactly once, and no file
\* imports it twice; addImport on a file that imports the name already,
\* from wherever, returns false and leaves the import declarations as
\* they are.
C14_OneImportOfTheType ==
    /\ \A path \in DOMAIN imports :
          /\ Cardinality(ImportsOfName(imports[path], TypeName)) <= 1
          /\ Cardinality(ImportsOfName(staged.imports[path], TypeName)) <= 1
    /\ \A k \in 1..Len(Flushed) :
          (/\ isAddParameterRequirement(Flushed[k])
           /\ Flushed[k].functionWithAdditionalParameter.filePath \in DOMAIN imports) =>
             Cardinality(ImportsOfName(
                 imports[Flushed[k].functionWithAdditionalParameter.filePath],
                 Flushed[k].parameterType.name)) = 1
    /\ \A path \in DOMAIN imports :
       \A what \in ParameterTypes :
          ImportsOfName(imports[path], what.name) # {} =>
             addImport(imports, path, what)
                = [threw |-> FALSE, added |-> FALSE, imports |-> imports]

\* The name of the first parameter of declaration d that has the type.
FirstParameterOfType(d, typeName) ==
    d.params[Min({i \in 1..Len(d.params) : d.params[i].type = typeName})].name

\* Requirement r passes an argument to fn from inside declaration e.
PassesArgumentFrom(r, e, fn) ==
    /\ r.kind = "Pass Argument"
    /\ SameFunction(r.enclosingFunction, functionCallIdentifierFromTreeNode(e))
    /\ SameFunction(r.functionWithAdditionalParameter, fn)

\* C15: when a function outside the tests calls the target of a planned Add
\* Parameter and has a parameter of the required type already, the target's
\* changeset holds a Pass Argument from that function to the target, every
\* such Pass Argument passes the name of the first parameter of that type,
\* and no Add Parameter is planned for that function.
C15_PassesExistingParameter ==
    \A n \in 1..Len(changesets) :
        LET r == changesets[n].requirements[1]
        IN  r.kind = "Add Parameter" =>
            \A e \in CallersOf(r.functionWithAdditionalParameter) :
                (~StartsWithTest(e.path) /\ HasParameterOfType(e, r.parameterType.name)) =>
                    /\ \E j \in 1..Len(changesets[n].requirements) :
                          PassesArgumentFrom(changesets[n].requirements[j], e,
                                             r.functionWithAdditionalParameter)
                    /\ \A j \in 1..Len(changesets[n].requirements) :
                          PassesArgumentFrom(changesets[n].requirements[j], e,
                                             r.functionWithAdditionalParameter) =>
                             changesets[n].requirements[j].argumentValue
                                = FirstParameterOfType(e, r.parameterType.name)
                    /\ \A m \in 1..Len(changesets) :
                          ~AddsParameterTo(m, functionCallIdentifierFromTreeNode(e))

\* Planning has finished; g, which has two parameters of the type, calls the
\* root's target and passes it the first of them; h, which has none and also
\* calls the target, passes the new parameter.
C15_Witness ==
    /\ pc = "planned"
    /\ project[2].params = Params(TRUE)
    /\ \E j \in 1..Len(changesets[1].requirements) :
          /\ PassesArgumentFrom(changesets[1].requirements[j], project[2],
                                root.functionWithAdditionalParameter)
          /\ changesets[1].requirements[j].argumentValue = "ctx"
    /\ \E j \in 1..Len(changesets[1].requirements) :
          /\ PassesArgumentFrom(changesets[1].requirements[j], project[3],
                                root.functionWithAdditionalParameter)
          /\ changesets[1].requirements[j].argumentValue = root.parameterName

UnderTest(filePath) == filePath[1] = "test"

\* C16: no planned Add Parameter is on a function declared in a file under
\* test/, and no planned Pass Argument is from inside or to such a function.
C16_NothingPlannedInTests ==
    \A n \in 1..Len(changesets) :
    \A j \in 1..Len(changesets[n].requirements) :
        LET r == changesets[n].requirements[j]
        IN  /\ r.kind = "Add Parameter" =>
                  ~UnderTest(r.functionWithAdditionalParameter.filePath)
            /\ r.kind = "Pass Argument" =>
                  /\ ~UnderTest(r.enclosingFunction.filePath)
                  /\ ~UnderTest(r.functionWithAdditionalParameter.filePath)

\* Planning has finished for a target that a function under test/ calls and
\* that the planner searched for in the tests: its changeset passes a dummy
\* in tests and plans nothing for the calling test function.
C16_Witness ==
    /\ pc = "planned"
    /\ \E e \in CallersOf(root.functionWithAdditionalParameter) : UnderTest(e.path)
    /\ \E e \in CallersOf(root.functionWithAdditionalParameter) : ~UnderTest(e.path)
    /\ \E j \in 1..Len(changesets[1].requirements) :
          changesets[1].requirements[j].kind = "Pass Dummy In Tests"

\* C17 as stated: two requirements are equal exactly when they have the same
\* kind, the same function (name, file, scope chain) and, for Pass Argument,
\* the same enclosing function; no other field influences equality.
C17_EqualityByKindAndFunctions ==
    pc \in {"same", "different"} =>
        (pc = "same" <=> EqualRequirements(checked[1], unchecked[1].req))

\* C17, amended: as stated, and two Add Parameter requirements are equal
\* only if they also have the same parameterName; why, parameterType,
\* argumentValue and dummyValue do not influence equality.
C17_EqualityAlsoByParameterName ==
    pc \in {"same", "different"} =>
        (pc = "same" <=>
            /\ EqualRequirements(checked[1], unchecked[1].req)
            /\ checked[1].kind = "Add Parameter" =>
                  checked[1].parameterName = unchecked[1].req.parameterName)

\* Two Add Parameter requirements on the same function that differ in
\* nothing but the parameterName have been compared and found different.
C17_Witness ==
    /\ pc = "different"
    /\ checked[1].kind = "Add Parameter"
    /\ EqualRequirements(checked[1], unchecked[1].req)
    /\ checked[1].parameterName # unchecked[1].req.parameterName
    /\ checked[1].parameterType = unchecked[1].req.parameterType
    /\ checked[1].why = unchecked[1].req.why

\* The requirement that is being implemented, or is the next to be.
Current == RequirementAt(changesets, ExecutionOrder(changesets)[cursor])

\* The declarations that the declaration path expression of fn finds in
\* fn's file, in the content as last flushed.
MatchingDeclarations(fn) ==
    {i \in 1..Len(project) :
        /\ project[i].path = fn.filePath
        /\ DeclarationMatches(functionDeclarationPathExpression(fn), project[i])}

\* The staged declarations are the flushed ones, but for the parameter in
\* front of declaration i.
OnlyParameterAdded(i, name, type) ==
    /\ Len(staged.project) = Len(project)
    /\ \A k \in 1..Len(project) :
          IF k = i
          THEN /\ staged.project[k].params
                     = <<[name |-> name, type |-> type]>> \o project[k].params
               /\ staged.project[k].passed = project[k].passed
          ELSE staged.project[k] = project[k]

\* How an Add Parameter has ended, given the message of the ambiguous case.
AddParameterOutcome(ambiguous) ==
    LET matches == MatchingDeclarations(Current.functionWithAdditionalParameter)
    IN  IF Cardinality(matches) = 1
        THEN /\ staged.report = reportImplemented(Current)
             /\ \E i \in matches :
                   OnlyParameterAdded(i, Current.parameterName, Current.parameterType.name)
        ELSE /\ staged.project = project
             /\ staged.report.implemented = <<>>
             /\ Len(staged.report.unimplemented) = 1
             /\ staged.report.unimplemented[1].requirement = Current
             /\ staged.report.unimplemented[1].message =
                   IF matches = {} THEN "Function declaration not found" ELSE ambiguous

DeclarationsNamed(fn) ==
    {i \in 1..Len(project) :
        SameFunction(functionCallIdentifierFromTreeNode(project[i]), fn)}

\* The calls of fn inside the declarations of enclosingFunction.
CallsInside(enclosingFunction, fn) ==
    {site \in (1..Len(project)) \X {<<fn.name>>} :
        /\ site[1] \in DeclarationsNamed(enclosingFunction)
        /\ site[2] \in project[site[1]].calls}

CallsInTests(fn) ==
    {site \in (1..Len(project)) \X {<<fn.name>>} :
        /\ project[site[1]].path[1] = "test"
        /\ site[2] \in project[site[1]].calls}

\* C20: implementing a Pass Dummy In Tests when no file under test*/ calls
\* the target edits nothing and adds no import, neither before nor after
\* its own flush, and reports nothing: the requirement is not unimplemented.
C20_NoTestCallsNoEdit ==
    [][(/\ pc = "planned"
        /\ pc' # "planned"
        /\ cursor <= Len(ExecutionOrder(changesets))
        /\ isPassDummyInTests(Current)
        /\ CallsInTests(Current.functionWithAdditionalParameter) = {})
       => /\ pc' = "flush"
          /\ project' = project
          /\ imports' = imports
          /\ staged'.project = project
          /\ staged'.imports = imports
          /\ staged'.report.unimplemented = <<>>
          /\ staged'.report = emptyReport]_vars

\* A Pass Dummy In Tests with an additional import has been implemented in
\* a project whose test does not call the target; the run is over with an
\* empty report, no call has a dummy and the test file imports nothing.
C20_Witness ==
    /\ pc = "done"
    /\ Len(Flushed) = 1
    /\ isPassDummyInTests(Flushed[1])
    /\ Flushed[1].additionalImport.kind # Undefined
    /\ CallsInTests(FunctionF) = {}
    /\ report = emptyReport
    /\ imports[TestA] = <<>>
    /\ \A i \in 1..Len(project) : \A c \in project[i].calls : project[i].passed[c] = <<>>

\* C21: the requirements found for a caller carry the access inferred from
\* its declaration: PublicFunctionAccess with the export keyword,
\* PrivateMethodAccess with private or protected, otherwise
\* PrivateFunctionAccess for a top-level function and PublicMethodAccess for
\* a method of a class.
C21_AccessInferredFromDeclaration ==
    pc = "consequences found" =>
        LET d == project[1]
            inferred ==
                IF "ExportKeyword" \in d.keywords THEN "PublicFunctionAccess"
                ELSE IF "PrivateKeyword" \in d.keywords \/ "ProtectedKeyword" \in d.keywords
                THEN "PrivateMethodAccess"
                ELSE IF d.kind = "MethodDeclaration" THEN "PublicMethodAccess"
                ELSE "PrivateFunctionAccess"
        IN  \A i \in 1..Len(checked) :
                /\ checked[i].kind = "Add Parameter" =>
                      checked[i].functionWithAdditionalParameter.access.kind = inferred
                /\ checked[i].kind = "Pass Argument" =>
                      checked[i].enclosingFunction.access.kind = inferred

\* C22: addImport returns true exactly when it changed the file. When the
\* file imports the name already it returns false and changes nothing;
\* otherwise it returns true, having put the name into the braces of the
\* first import from the same module or having put a new import statement
\* first; and when that import from the module has no braces (a * or a
\* default import) the file is left as it was.
C22_TrueIffFileChanged ==
    pc \in {"returned true", "returned false"} =>
        LET before == imports[SrcA]
            after == staged.imports[SrcA]
            what == root.parameterType
            location == IF what.kind = "library" THEN what.location ELSE what.localPath
            fromModule == {i \in 1..Len(before) : before[i].location = location}
        IN  /\ pc = "returned true" <=> after # before
            /\ IF ImportsOfName(before, what.name) # {}
               THEN pc = "returned false" /\ after = before
               ELSE IF fromModule = {}
               THEN /\ pc = "returned true"
                    /\ after = <<ImportDeclaration(<<what.name>>, location)>> \o before
               ELSE IF before[Min(fromModule)].braces
               THEN /\ pc = "returned true"
                    /\ after = [before EXCEPT ![Min(fromModule)].names = <<what.name>> \o @]
               ELSE after = before

\* C23: implementing a Pass Dummy In Tests rewrites the calls of the target
\* in the files under test*/, flushes them, and only then adds the
\* additional import: when the calls are flushed no import is, and
\* addImport is then applied once to each test file in which a call was
\* rewritten, and no other file, in or outside test*/, has its imports
\* touched.
C23_DummyFlushThenImport ==
    [][(/\ pc = "planned"
        /\ pc' = "flush"
        /\ isPassDummyInTests(Current))
       => LET rewritten == CallsInTests(Current.functionWithAdditionalParameter)
              filesChanged == {project[site[1]].path : site \in rewritten}
          IN  /\ steps' = steps \o <<[op |-> "implement", at |-> <<1, cursor>>],
                                     [op |-> "flush in implement", at |-> <<1, cursor>>]>>
              /\ Len(project') = Len(project)
              /\ \A i \in 1..Len(project) :
                    /\ project'[i].params = project[i].params
                    /\ \A c \in project[i].calls :
                          project'[i].passed[c] =
                             IF <<i, c>> \in rewritten
                             THEN <<Current.dummyValue>> \o project[i].passed[c]
                             ELSE project[i].passed[c]
              /\ imports' = imports
              /\ staged'.project = project'
              /\ \A path \in DOMAIN imports :
                    staged'.imports[path] =
                       IF path \in filesChanged /\ Current.additionalImport.kind # Undefined
                       THEN addImportToSource(imports[path], path,
                                              Current.additionalImport).source
                       ELSE imports[path]
              /\ \A path \in DOMAIN imports :
                    staged'.imports[path] # imports[path] =>
                       /\ path[1] = "test"
                       /\ path \in filesChanged
                       /\ Cardinality(ImportsOfName(staged'.imports[path],
                                                    Current.additionalImport.name)) = 1]_vars

\* A Pass Dummy In Tests with an additional import has been implemented
\* where test/a.ts calls the target and test/b.ts does not: the dummy in
\* test/a.ts is flushed, the import into test/a.ts is not yet, and nothing
\* is to be imported into test/b.ts or src/a.ts.
C23_Witness ==
    /\ pc = "flush"
    /\ isPassDummyInTests(Current)
    /\ steps[Len(steps)].op = "flush in implement"
    /\ Len(project) = 4
    /\ project[3].calls = {<<"f">>}
    /\ project[3].passed[<<"f">>] = <<PopulateInTests.dummyValue>>
    /\ project[4].calls = {}
    /\ project[1].calls = {<<"f">>}
    /\ project[1].passed[<<"f">>] = <<>>
    /\ imports[TestA] = <<>>
    /\ staged.imports[TestA] = <<ImportDeclaration(<<TypeName>>, LibraryLocation)>>
    /\ staged.imports[TestB] = imports[TestB]
    /\ staged.imports[SrcA] = imports[SrcA]

\* Where <<changeset, index>> is in the flattened changeset, 0 when nowhere.
PlaceOf(at) ==
    LET order == ExecutionOrder(changesets)
    IN  IF \E k \in 1..Len(order) : order[k] = at
        THEN CHOOSE k \in 1..Len(order) : order[k] = at
        ELSE 0

\* The places in the flattened changeset of the requirements of the given
\* changesets.
PlacesOf(ns) ==
    {k \in 1..Len(ExecutionOrder(changesets)) : ExecutionOrder(changesets)[k][1] \in ns}

\* C24: when planning has finished, the flattened changeset holds a
\* requirement equal to the root; it lists every requirement of every
\* changeset once; the requirements of a changeset stand in their order
\* behind those of all the changesets below it, and a changeset together
\* with the changesets below it fills one stretch of the list (depth-first).
C24_RootIncludedPrerequisitesFirst ==
    pc = "planned" =>
        LET order == ExecutionOrder(changesets)
        IN  /\ \E k \in 1..Len(order) :
                  sameRequirement(root, RequirementAt(changesets, order[k]))
            /\ \A k, l \in 1..Len(order) : order[k] = order[l] => k = l
            /\ \A n \in 1..Len(changesets) :
                  /\ \A j \in 1..Len(changesets[n].requirements) :
                        /\ PlaceOf(<<n, j>>) > 0
                        /\ j > 1 => PlaceOf(<<n, j>>) = PlaceOf(<<n, j - 1>>) + 1
                        /\ \A k \in PlacesOf(Descendants(changesets, n)) :
                              k < PlaceOf(<<n, j>>)
                  /\ LET stretch == PlacesOf({n} \cup Descendants(changesets, n))
                     IN  \A k, l \in stretch :
                            \A between \in k..l : between \in stretch

\* Planning has finished with two prerequisite changesets beside each other
\* under the root's, and the root is the last of the flattened changeset.
C24_Witness ==
    /\ pc = "planned"
    /\ \E n, m \in 1..Len(changesets) :
          n # m /\ changesets[n].parent = 1 /\ changesets[m].parent = 1
    /\ ExecutionOrder(changesets)[Len(ExecutionOrder(changesets)) + 1
                                  - Len(changesets[1].requirements)] = <<1, 1>>

\* C25: the declaration path expression with which an Add Parameter has
\* looked for its target has one prefix component for every scope of the
\* target's scope chain, the outermost first (a class as ClassDeclaration,
\* a namespace as ModuleDeclaration), and ends in MethodDeclaration when
\* the innermost scope is a class and in FunctionDeclaration otherwise.
C25_OneComponentPerScope ==
    (pc = "flush" /\ isAddParameterRequirement(Current)) =>
        LET fn == Current.functionWithAdditionalParameter
            scopes == fn.enclosingScope
            pxe == functionDeclarationPathExpression(fn)
        IN  /\ Len(pxe.components) = Len(scopes)
            /\ \A i \in 1..Len(pxe.components) :
                  i <= Len(scopes) =>
                     /\ pxe.components[i].identifier = scopes[Len(scopes) + 1 - i].name
                     /\ pxe.components[i].node =
                           IF scopes[Len(scopes) + 1 - i].kind = "class around method"
                           THEN "ClassDeclaration" ELSE "ModuleDeclaration"
            /\ pxe.methodOrFunction =
                  IF scopes # <<>> /\ scopes[1].kind = "class around method"
                  THEN "MethodDeclaration" ELSE "FunctionDeclaration"
            /\ pxe.identification = fn.name

\* ------------------------------------------------------------------
\* The fingerprint handler (dependencyVersion): on a push it reads
\* package-lock.json at the pushed commit and pushes the version of the
\* automation client as a fingerprint of that commit.

AutomationClientVersionFingerprintName == "automation-client-version"

NotAnAutomationClient == "NONE"

AutomationClientDependency == "@atomist/automation-client"

adminChannel == "admin channel"

DefaultProvider == [apiUrl |-> "https://api.github.com", url |-> "https://github.com"]

OrgProvider == [apiUrl |-> "https://ghe.example.com/api", url |-> "https://ghe.example.com"]

\* What package-lock.json holds when it is there: text that is not JSON, the
\* JSON null, an object without dependencies, dependencies without the
\* automation client, and the automation client at a version.
PackageLocks ==
    {[json |-> j, version |-> Undefined] :
        j \in {"unparsable", "null", "no dependencies", "no automation client"}}
    \cup {[json |-> "automation client", version |-> v] : v \in {"0.2.3", "0.6.6"}}

\* What fetchFileContents comes back with: 404, the contents, or a rejection.
Fetches ==
    {[status |-> "404", contents |-> [json |-> Undefined, version |-> Undefined]],
     [status |-> "rejected", contents |-> [json |-> Undefined, version |-> Undefined]]}
    \cup {[status |-> "200", contents |-> c] : c \in PackageLocks}

\* The push events: one Push, of a repository with or without a provider of
\* its organisation.
PushEvents ==
    {[repo |-> [owner |-> "atomist", name |-> "upgrade-client-automation", orgProvider |-> p],
      after |-> [sha |-> s]] :
        p \in {Undefined, "org"}, s \in {"sha1", "sha2"}}

providerFromRepo(repo) ==
    IF repo.orgProvider # Undefined THEN OrgProvider ELSE DefaultProvider

\* A calculation that takes whatever it cannot read for no automation client.
calculateFingerprintWithoutThrowing(jpl) ==
    [threw |-> FALSE,
     value |-> IF jpl.json = "automation client" THEN jpl.version
               ELSE NotAnAutomationClient,
     message |-> Undefined]

\* calculateFingerprint: the version of the automation client among the
\* dependencies, NONE without; text that does not parse throws, and so does
\* reading the dependencies of null.
calculateFingerprint(jpl) ==
    IF jpl.json = "unparsable"
    THEN [threw |-> TRUE, value |-> Undefined,
          message |-> "Could not parse package-lock.json"]
    ELSE IF jpl.json = "null"
    THEN [threw |-> TRUE, value |-> Undefined,
          message |-> "Cannot read property 'dependencies' of null"]
    ELSE IF jpl.json = "no dependencies"
    THEN [threw |-> FALSE, value |-> NotAnAutomationClient, message |-> Undefined]
    ELSE IF jpl.json = "automation client"
    THEN [threw |-> FALSE, value |-> jpl.version, message |-> Undefined]
    ELSE [threw |-> FALSE, value |-> NotAnAutomationClient, message |-> Undefined]

\* determineFingerprint: fetch package-lock.json at where.sha; 404 is NONE.
determineFingerprint(fetched) ==
    IF fetched.status = "rejected"
    THEN [threw |-> TRUE, value |-> Undefined, message |-> "fetch failed"]
    ELSE IF fetched.status = "404"
    THEN [threw |-> FALSE, value |-> NotAnAutomationClient, message |-> Undefined]
    ELSE calculateFingerprint(fetched.contents)

InitFingerprint ==
    \E e \in PushEvents, f \in Fetches, accepts \in BOOLEAN :
        /\ handler = [event |-> e,
                      fetch |-> f,
                      pushAccepted |-> accepts,
                      where |-> Undefined,
                      fingerprint |-> Undefined,
                      error |-> Undefined,
                      pushed |-> <<>>,
                      warnings |-> <<>>,
                      messages |-> <<>>,
                      result |-> Undefined]
        /\ project = <<>>
        /\ imports = NoImports(<<>>)
        /\ staged = [project |-> <<>>, imports |-> NoImports(<<>>), report |-> emptyReport]
        /\ report = emptyReport
        /\ root = AddParameterTo(FunctionF)
        /\ pc = "event fired"
        /\ unchecked = <<>>
        /\ checked = <<>>
        /\ changesets = <<>>
        /\ steps = <<>>
        /\ cursor = 1

\* handle up to the end of determineFingerprint inside doFingerprint
DetermineFingerprint ==
    /\ pc = "event fired"
    /\ LET push == handler.event
           where == [owner |-> push.repo.owner, repo |-> push.repo.name,
                     provider |-> providerFromRepo(push.repo),
                     sha |-> push.after.sha]
           determined == determineFingerprint(handler.fetch)
       IN  IF determined.threw
           THEN /\ handler' = [handler EXCEPT !.where = <<where>>,
                                              !.error = determined.message]
                /\ pc' = "threw"
           ELSE /\ handler' = [handler EXCEPT
                        !.where = <<where>>,
                        !.fingerprint = <<[name |-> AutomationClientVersionFingerprintName,
                                           sha |-> determined.value]>>]
                /\ pc' = "determined"
    /\ UNCHANGED <<project, root, unchecked, checked, changesets, steps, cursor,
                   imports, staged, report>>

\* doFingerprint: pushFingerprint(where, fingerprint); a rejection is logged
\* and the fingerprint is returned all the same
PushFingerprint ==
    /\ pc = "determined"
    /\ handler' = [handler EXCEPT
            !.pushed = Append(@, [where |-> handler.where[1],
                                  fingerprint |-> handler.fingerprint[1]]),
            !.warnings = IF handler.pushAccepted THEN @
                         ELSE Append(@, "Error pushing fingerprint")]
    /\ pc' = "fingerprinted"
    /\ UNCHANGED <<project, root, unchecked, checked, changesets, steps, cursor,
                   imports, staged, report>>

\* handle: return { code: 0, message: reported fingerprint ... }
HandleReturns ==
    /\ pc = "fingerprinted"
    /\ handler' = [handler EXCEPT
            !.result = <<[code |-> 0, message |-> "reported fingerprint"]>>]
    /\ pc' = "returned"
    /\ UNCHANGED <<project, root, unchecked, checked, changesets, steps, cursor,
                   imports, staged, report>>

\* handle: catch (error) { return reportFailure(ctx, push, error) }
reportFailure ==
    /\ pc = "threw"
    /\ handler' = [handler EXCEPT
            !.messages = Append(@, [channel |-> adminChannel,
                                    text |-> <<"Failure fingerprinting",
                                               handler.event.repo.owner,
                                               handler.event.repo.name,
                                               handler.event.after.sha,
                                               handler.error>>]),
            !.result = <<[code |-> 1, message |-> handler.error]>>]
    /\ pc' = "returned"
    /\ UNCHANGED <<project, root, unchecked, checked, changesets, steps, cursor,
                   imports, staged, report>>

NextFingerprint ==
    \/ DetermineFingerprint
    \/ PushFingerprint
    \/ HandleReturns
    \/ reportFailure

FingerprintSpec == InitFingerprint /\ [][NextFingerprint]_vars

\* The fingerprint that the pushed package-lock.json calls for: the version
\* of the automation client, NONE where there is no file or no such
\* dependency, nothing where the file cannot be read.
FingerprintCalledFor ==
    IF handler.fetch.status = "404" THEN <<NotAnAutomationClient>>
    ELSE IF handler.fetch.status # "200" THEN <<>>
    ELSE IF handler.fetch.contents.json \in {"no dependencies", "no automation client"}
    THEN <<NotAnAutomationClient>>
    ELSE IF handler.fetch.contents.json = "automation client"
    THEN <<handler.fetch.contents.version>>
    ELSE <<>>

C27_UnimplementedAddParameterEditsNothing ==
    (/\ pc = "flush"
     /\ isAddParameterRequirement(Current)
     /\ staged.report.unimplemented # <<>>)
    => /\ staged.project = project
       /\ staged.imports = imports

\* The report lists the executed requirements as a labelling says: the
\* implemented ones, in order, are those labelled implemented and the
\* requirements of the unimplemented ones, in order, those labelled
\* unimplemented.
ReportFollows(labelling) ==
    /\ report.implemented = Labelled(Flushed, labelling, "implemented")
    /\ Len(report.unimplemented) = Len(Labelled(Flushed, labelling, "unimplemented"))
    /\ \A i \in 1..Len(report.unimplemented) :
          report.unimplemented[i].requirement
              = Labelled(Flushed, labelling, "unimplemented")[i]

\* C28: when the run over a list of requirements is over, every requirement
\* of the list is once in the report, among the implemented or among the
\* unimplemented ones, and the two lists are together as long as the list.
C28_EveryRequirementReportedOnce ==
    pc = "done" =>
        /\ Len(Flushed) = Len(ExecutionOrder(changesets))
        /\ \E labelling \in [1..Len(Flushed) -> {"implemented", "unimplemented"}] :
              ReportFollows(labelling)
        /\ Len(report.implemented) + Len(report.unimplemented) = Len(Flushed)

\* C28, amended: a Pass Dummy In Tests whose target no test file calls is in
\* neither list; every other requirement of the list is once in the report,
\* implemented or unimplemented, and the two lists are together as long as
\* the list without those Pass Dummy In Tests.
C28_EveryRequirementButIdleDummyReportedOnce ==
    pc = "done" =>
        /\ Len(Flushed) = Len(ExecutionOrder(changesets))
        /\ \E labelling \in [1..Len(Flushed) -> {"implemented", "unimplemented", "neither"}] :
              /\ ReportFollows(labelling)
              /\ \A k \in 1..Len(Flushed) :
                    labelling[k] = "neither" <=>
                        /\ isPassDummyInTests(Flushed[k])
                        /\ CallsInTests(Flushed[k].functionWithAdditionalParameter) = {}
              /\ Len(report.implemented) + Len(report.unimplemented)
                    = Cardinality({k \in 1..Len(Flushed) : labelling[k] # "neither"})

\* The run is over: an Add Parameter is unimplemented, and a Pass Dummy In
\* Tests after it, with no call to pass the dummy to, is in neither list.
C28_Witness ==
    /\ pc = "done"
    /\ Len(Flushed) = 2
    /\ isAddParameterRequirement(Flushed[1])
    /\ isPassDummyInTests(Flushed[2])
    /\ Len(report.unimplemented) = 1
    /\ report.implemented = <<>>

(***************************************************************************)
(* Planning and implementing in a project with a function declared inside  *)
(* another: n is declared in the body of e and calls f; e may call f and n *)
(* itself; h in another file and the test t may call f.                    *)
(***************************************************************************)
NestedFunction(outer, name, path, calls) ==
    Declaration(name, path, "FunctionDeclaration",
                <<DeclarationAround("FunctionDeclaration", outer)>>, {},
                Params(FALSE), calls)

ProjectsWithNesting ==
    { << TopLevelFunction("f", SrcA, kf, FALSE, {}),
         TopLevelFunction("e", SrcA, ke, pe, ce),
         NestedFunction("e", "n", SrcA, cn),
         TopLevelFunction("h", SrcB, {"ExportKeyword"}, FALSE, ch),
         TopLevelFunction("t", TestA, {"ExportKeyword"}, FALSE, ct) >> :
      kf \in FunctionKeywords, ke \in FunctionKeywords, pe \in BOOLEAN,
      ce \in SUBSET {<<"f">>, <<"n">>}, cn \in SUBSET {<<"f">>},
      ch \in SUBSET {<<"f">>, <<"e">>}, ct \in SUBSET {<<"f">>} }

InitNested ==
    \E proj \in ProjectsWithNesting :
        InitWith(proj, LibraryImport(TypeName, LibraryLocation))

NestedSpec == InitNested /\ [][NextExec]_vars

\* The new parameters in front of a declaration.
NewParameters(i) ==
    {k \in 1..Len(project[i].params) : project[i].params[k].name = ParameterName}

\* Call c in declaration j is a call of declaration i: of a top-level
\* function by its name, from its own file or, when it is exported, from
\* anywhere; of a method by Class.name, or by this.name from a method of
\* its class.
CallsDeclaration(j, c, i) ==
    IF project[i].parents = <<>>
    THEN /\ c = <<project[i].name>>
         /\ (project[j].path = project[i].path
             \/ "ExportKeyword" \in project[i].keywords)
    ELSE \/ /\ c = <<project[i].parents[1].identifier, project[i].name>>
            /\ ("PrivateKeyword" \in project[i].keywords =>
                   project[j].path = project[i].path)
         \/ /\ c = <<"this", project[i].name>>
            /\ project[j].parents = project[i].parents
            /\ project[j].path = project[i].path

\* C29: when the planned changeset has been implemented to the end, no
\* declaration has the new parameter more than once, no call has more than
\* one argument put in front of it, and every call of a declaration that
\* has the new parameter has exactly one.
C29_OneParameterOneArgument ==
    pc = "done" =>
        /\ \A i \in 1..Len(project) : Cardinality(NewParameters(i)) <= 1
        /\ \A j \in 1..Len(project) : \A c \in project[j].calls :
              /\ Len(project[j].passed[c]) <= 1
              /\ \A i \in 1..Len(project) :
                    (NewParameters(i) # {} /\ CallsDeclaration(j, c, i))
                        => Len(project[j].passed[c]) = 1

\* Where the Pass Argument requirements with the given enclosing function
\* and target are in the planned changeset.
PassArgumentsFor(e, fn) ==
    {j \in 1..Len(Planned(changesets)) :
        /\ Planned(changesets)[j].kind = "Pass Argument"
        /\ SameFunction(Planned(changesets)[j].enclosingFunction, e)
        /\ SameFunction(Planned(changesets)[j].functionWithAdditionalParameter, fn)}

\* C30: when planning has finished, for every Add Parameter planned on a
\* function and every declaration outside the tests that the search for
\* that function finds to hold a call of it, a Pass Argument with that
\* declaration as its enclosing function and the function as its target is
\* planned.
C30_PassArgumentForEveryCaller ==
    pc = "planned" =>
        \A i \in AddParametersPlanned :
            LET fn == Planned(changesets)[i].functionWithAdditionalParameter
            IN  \A e \in CallersOf(fn) :
                    ~StartsWithTest(e.path) =>
                        PassArgumentsFor(functionCallIdentifierFromTreeNode(e), fn) # {}

\* Planning has finished for cyclic callers: f and g call each other, the
\* Add Parameter on f was asked for again below g and dropped there, and the
\* Pass Arguments of g in f and of f in g are both planned.
C30_Witness ==
    /\ pc = "planned"
    /\ Len(project) = 4
    /\ project[1].name = "f" /\ project[2].name = "g"
    /\ project[1].parents = <<>>
    /\ <<"g">> \in project[1].calls
    /\ <<"f">> \in project[2].calls
    /\ ~HasParameterOfType(project[2], TypeName)
    /\ PassArgumentsFor(functionCallIdentifierFromTreeNode(project[1]),
                        functionCallIdentifierFromTreeNode(project[2])) # {}
    /\ PassArgumentsFor(functionCallIdentifierFromTreeNode(project[2]),
                        functionCallIdentifierFromTreeNode(project[1])) # {}
====
